---------------------------- MODULE Spec2Model ----------------------------
(***************************************************************************)
(* A model of the ray tracer HPRIOR/ray-tracer-rust: the linear-algebra   *)
(* kernel, shapes, rays and intersections, the Phong lighting function,   *)
(* the world's color_at / is_shadowed / reflected_colour and the camera's *)
(* render.                                                                 *)
(*                                                                         *)
(* Numbers.  The program computes with f64.  The model computes with      *)
(* fixed-point numbers: the integer X stands for the real X / D.  Sums    *)
(* and differences are exact; a product or a quotient is rounded toward   *)
(* zero to the next multiple of 1/D, the way an f64 operation is rounded  *)
(* to the next representable value.  The inputs below are chosen so that  *)
(* the geometry of each scene is decided by margins far larger than 1/D.  *)
(*                                                                         *)
(* None / Some.  Option<T> is a sequence of length at most one: None is   *)
(* << >> and Some(v) is << v >>.                                           *)
(***************************************************************************)
EXTENDS Integers, Sequences, FiniteSets, TLC

(***************************************************************************)
(* Fixed-point arithmetic                                                  *)
(***************************************************************************)

\* Resolution of the model's reals: the integer X stands for X / D.
D == 100

Abs(a) == IF a < 0 THEN -a ELSE a

\* Integer quotient rounded toward zero.
TDiv(n, d) == (IF (n < 0) # (d < 0) THEN -1 ELSE 1) * (Abs(n) \div Abs(d))

\* a * b and a / b on fixed-point numbers.
FMul(a, b) == TDiv(a * b, D)
FDiv(a, b) == TDiv(a * D, b)

RECURSIVE Newton(_, _)
Newton(n, x) ==
    LET y == (x + (n \div x)) \div 2
    IN  IF y >= x THEN x ELSE Newton(n, y)

\* floor(sqrt(n)) of a natural number.
ISqrt(n) == IF n <= 0 THEN 0 ELSE Newton(n, n)

\* f64::sqrt on a fixed-point number.
FSqrt(a) == ISqrt(a * D)

\* f64::floor on a fixed-point number.
FFloor(a) == (a \div D) * D

\* f64::powf with a whole exponent n >= 0 (the exponent is a plain integer).
RECURSIVE FPow(_, _)
FPow(a, n) ==
    IF n = 0 THEN D
    ELSE LET Square(h) == IF n % 2 = 0 THEN FMul(h, h) ELSE FMul(FMul(h, h), a)
         IN  Square(FPow(a, n \div 2))

None == << >>
Some(v) == << v >>
IsSome(o) == o # << >>
Get(o) == o[1]

(***************************************************************************)
(* Tuples: a Tup is <<x, y, z, w>>, w = D for a point and 0 for a vector.  *)
(***************************************************************************)

point(x, y, z) == << x, y, z, D >>
vector(x, y, z) == << x, y, z, 0 >>

add(a, b) == << a[1] + b[1], a[2] + b[2], a[3] + b[3], a[4] + b[4] >>
sub(a, b) == << a[1] - b[1], a[2] - b[2], a[3] - b[3], a[4] - b[4] >>
neg(a) == << -a[1], -a[2], -a[3], -a[4] >>
mul(a, s) == [i \in 1..4 |-> FMul(a[i], s)]

\* The products are summed exactly and rounded once.
dot(a, b) == TDiv(a[1] * b[1] + a[2] * b[2] + a[3] * b[3] + a[4] * b[4], D)

length(a) == ISqrt(a[1] * a[1] + a[2] * a[2] + a[3] * a[3] + a[4] * a[4])

norm(a) ==
    LET Scaled(l) == [i \in 1..4 |-> FDiv(a[i], l)]
    IN  Scaled(length(a))

\* v reflected about the normal n: v - n * 2 * dot(v, n).
reflect(v, n) == sub(v, mul(mul(n, 2 * D), dot(v, n)))

(***************************************************************************)
(* Matrices: a sequence of rows, each a sequence of numbers.  Rows and     *)
(* columns are counted from 1 (the program counts from 0; the parity of    *)
(* row + col is the same).                                                 *)
(***************************************************************************)

\* an identity whose last row is empty
ident_without_w ==
    << << D, 0, 0, 0 >>,
       << 0, D, 0, 0 >>,
       << 0, 0, D, 0 >>,
       << 0, 0, 0, 0 >> >>

ident ==
    << << D, 0, 0, 0 >>,
       << 0, D, 0, 0 >>,
       << 0, 0, D, 0 >>,
       << 0, 0, 0, D >> >>

scaling(x, y, z) ==
    << << x, 0, 0, 0 >>,
       << 0, y, 0, 0 >>,
       << 0, 0, z, 0 >>,
       << 0, 0, 0, D >> >>

translation(x, y, z) ==
    << << D, 0, 0, x >>,
       << 0, D, 0, y >>,
       << 0, 0, D, z >>,
       << 0, 0, 0, D >> >>

transpose(m) == [i \in 1..Len(m) |-> [j \in 1..Len(m) |-> m[j][i]]]

\* The matrix without row `row` and column `col`.
submatrix(m, row, col) ==
    [i \in 1..(Len(m) - 1) |->
        [j \in 1..(Len(m) - 1) |->
            m[IF i < row THEN i ELSE i + 1][IF j < col THEN j ELSE j + 1]]]

RECURSIVE determinant(_)
RECURSIVE DetFold(_, _)

minor(m, row, col) == determinant(submatrix(m, row, col))

cofactor(m, row, col) ==
    (IF (row + col) % 2 = 0 THEN 1 ELSE -1) * minor(m, row, col)

\* fold over the first row up to column i: acc + x * cofactor(0, i)
DetFold(m, i) ==
    IF i = 0 THEN 0 ELSE DetFold(m, i - 1) + FMul(m[1][i], cofactor(m, 1, i))

determinant(m) ==
    IF Len(m) = 2
    THEN FMul(m[1][1], m[2][2]) - FMul(m[1][2], m[2][1])
    ELSE DetFold(m, Len(m))

\* inverse that takes a determinant within the tolerance of 0 for 0
inverse_with_tolerance(m) ==
    IF Abs(determinant(m)) <= 1
    THEN << >>
    ELSE LET cofactors == [i \in 1..Len(m) |-> [j \in 1..Len(m) |-> cofactor(m, i, j)]]
         IN  << [i \in 1..Len(m) |-> [j \in 1..Len(m) |->
                    TDiv(transpose(cofactors)[i][j] * D, determinant(m))]] >>

inverse(m) ==
    LET det == determinant(m)
    IN  IF det = 0
        THEN None
        ELSE LET cofactors == [i \in 1..Len(m) |-> [j \in 1..Len(m) |-> cofactor(m, i, j)]]
                 transposed == transpose(cofactors)
             IN  Some([i \in 1..Len(m) |-> [j \in 1..Len(m) |-> FDiv(transposed[i][j], det)]])

multiply_row(row, t) == TDiv(row[1] * t[1] + row[2] * t[2] + row[3] * t[3] + row[4] * t[4], D)

mul_tup(m, t) == [i \in 1..4 |-> multiply_row(m[i], t)]

\* fold over x of acc + self[i][x] * rhs[x][j], before the rounding
RECURSIVE MulFold(_, _, _, _, _)
MulFold(self, rhs, i, j, x) ==
    IF x = 0 THEN 0 ELSE MulFold(self, rhs, i, j, x - 1) + self[i][x] * rhs[x][j]

\* Matrix::mul
matrix_mul(self, rhs) ==
    [i \in 1..Len(self) |->
        [j \in 1..Len(rhs[1]) |-> TDiv(MulFold(self, rhs, i, j, Len(self)), D)]]

\* f64::cos and f64::sin; the angle is counted in quarter turns (pi / 2)
cos(radians) == << D, 0, -D, 0 >>[(radians % 4) + 1]
sin(radians) == << 0, D, 0, -D >>[(radians % 4) + 1]

\* Matrix::rotation
rotation(around, radians) ==
    IF around = "X"
    THEN << << D, 0, 0, 0 >>,
            << 0, cos(radians), -sin(radians), 0 >>,
            << 0, sin(radians), cos(radians), 0 >>,
            << 0, 0, 0, D >> >>
    ELSE IF around = "Y"
    THEN << << cos(radians), 0, sin(radians), 0 >>,
            << 0, D, 0, 0 >>,
            << -sin(radians), 0, cos(radians), 0 >>,
            << 0, 0, 0, D >> >>
    ELSE << << cos(radians), -sin(radians), 0, 0 >>,
            << sin(radians), cos(radians), 0, 0 >>,
            << 0, 0, D, 0 >>,
            << 0, 0, 0, D >> >>

\* Matrix::rotate, Matrix::scale
rotate(m, around, radians) == matrix_mul(rotation(around, radians), m)
scale(m, x, y, z) == matrix_mul(scaling(x, y, z), m)

\* translate that multiplies the fresh translation on the right
translate_on_the_right(m, x, y, z) == matrix_mul(m, translation(x, y, z))

\* Matrix::translate
translate(m, x, y, z) == matrix_mul(translation(x, y, z), m)

(***************************************************************************)
(* Colours                                                                 *)
(***************************************************************************)

Colour(r, g, b) == [red |-> r, green |-> g, blue |-> b]
black == Colour(0, 0, 0)
white == Colour(D, D, D)

colour_add(a, b) == Colour(a.red + b.red, a.green + b.green, a.blue + b.blue)
colour_scale(c, s) == Colour(FMul(c.red, s), FMul(c.green, s), FMul(c.blue, s))
colour_mul(a, b) == Colour(FMul(a.red, b.red), FMul(a.green, b.green), FMul(a.blue, b.blue))

(***************************************************************************)
(* Lights, patterns, materials, shapes.  A world is [objects, light]; a    *)
(* shape is named by its place in world.objects (the program's reference   *)
(* to the shape), so two shapes with equal fields stay distinct.           *)
(***************************************************************************)

\* The over-point bias of prep_comp and the parallel-ray tolerance of the plane:
\* 0.00001 in the program, here the smallest positive number, 1 / D.
EPSILON == 1

PointLight(position, intensity) == [position |-> position, intensity |-> intensity]

Stripe(a, b, transform) == [kind |-> "stripe", a |-> a, b |-> b, transform |-> transform]

Ring(a, b, transform) == [kind |-> "ring", a |-> a, b |-> b, transform |-> transform]
Checker(a, b, transform) == [kind |-> "checker", a |-> a, b |-> b, transform |-> transform]

\* Stripe::pattern_at with the x rounded toward zero in place of floor
pattern_at_truncating(p, pt) == IF TDiv(pt[1], D) % 2 = 0 THEN p.a ELSE p.b

\* Stripe::pattern_at
pattern_at(p, pt) == IF FFloor(pt[1]) % (2 * D) = 0 THEN p.a ELSE p.b

\* Ring::pattern_at: the square root is taken of x + z; of a negative sum it
\* is NaN, which floor and % keep and which == 0.0 tells from zero
ring_pattern_at(p, pt) ==
    LET sum == pt[1] + pt[3]
    IN  IF sum < 0 THEN p.b
        ELSE IF FFloor(FSqrt(sum)) % (2 * D) = 0 THEN p.a ELSE p.b

\* Checker::pattern_at
checker_pattern_at(p, pt) ==
    IF (FFloor(pt[1]) + FFloor(pt[2]) + FFloor(pt[3])) % (2 * D) = 0 THEN p.a ELSE p.b

\* shininess is the whole exponent itself, not a fixed-point number
Material(ambient, diffuse, specular, shininess, colour, pattern, reflectivity) ==
    [ambient |-> ambient, diffuse |-> diffuse, specular |-> specular,
     shininess |-> shininess, colour |-> colour, pattern |-> pattern,
     reflectivity |-> reflectivity]

MaterialDefault == Material(10, 90, 90, 200, white, None, 0)

with_reflectivity(m, r) == [m EXCEPT !.reflectivity = r]
with_colour(m, c) == [m EXCEPT !.colour = c]
with_pattern(m, p) == [m EXCEPT !.pattern = Some(p)]
with_ambient(m, a) == [m EXCEPT !.ambient = a]

Plane(transform, material) == [kind |-> "plane", transform |-> transform, material |-> material]
Sphere(transform, material) == [kind |-> "sphere", transform |-> transform, material |-> material]

Ray(origin, direction) == [origin |-> origin, direction |-> direction]
Intersection(at, object) == [at |-> at, object |-> object]

position(ray, t) == add(mul(ray.direction, t), ray.origin)

ray_transform(ray, m) == Ray(mul_tup(m, ray.origin), mul_tup(m, ray.direction))

\* shape_intersect of the plane that takes only a smaller |direction.y| for parallel
plane_shape_intersect_strict(o, ray) ==
    IF Abs(ray.direction[2]) < 1
    THEN << >>
    ELSE << [at |-> TDiv(-ray.origin[2] * D, ray.direction[2]), object |-> o] >>

\* Plane::shape_intersect on the ray in the plane's own space; o names the shape
plane_shape_intersect(o, ray) ==
    IF Abs(ray.direction[2]) <= EPSILON
    THEN << >>
    ELSE << Intersection(FDiv(-ray.origin[2], ray.direction[2]), o) >>

\* shape_intersect of the sphere that reports the root of a tangent ray once
sphere_shape_intersect_one_tangent(o, ray) ==
    LET a == dot(ray.direction, ray.direction)
        b == 2 * dot(ray.direction, sub(ray.origin, point(0, 0, 0)))
        c == dot(sub(ray.origin, point(0, 0, 0)), sub(ray.origin, point(0, 0, 0))) - D
        discriminant == TDiv(b * b, D) - TDiv(4 * TDiv(a * c, D) * D, D)
    IN  IF discriminant < 0 THEN << >>
        ELSE IF discriminant = 0 THEN << [at |-> TDiv(-b * D, 2 * a), object |-> o] >>
        ELSE << [at |-> TDiv((-b - ISqrt(discriminant * D)) * D, 2 * a), object |-> o],
                [at |-> TDiv((-b + ISqrt(discriminant * D)) * D, 2 * a), object |-> o] >>

\* The sphere's local intersection: the unit sphere at the origin.
sphere_shape_intersect(o, ray) ==
    LET shape_to_ray == sub(ray.origin, point(0, 0, 0))
        Roots(a, b, root) ==
            << Intersection(FDiv(-b - root, FMul(2 * D, a)), o),
               Intersection(FDiv(-b + root, FMul(2 * D, a)), o) >>
        Solve(a, b, discriminant) ==
            IF discriminant < 0 THEN << >> ELSE Roots(a, b, FSqrt(discriminant))
        Quadratic(a, b, c) == Solve(a, b, FMul(b, b) - FMul(FMul(4 * D, a), c))
    IN  Quadratic(dot(ray.direction, ray.direction),
                  FMul(dot(ray.direction, shape_to_ray), 2 * D),
                  dot(shape_to_ray, shape_to_ray) - D)

shape_intersect(shape, o, ray) ==
    IF shape.kind = "plane" THEN plane_shape_intersect(o, ray) ELSE sphere_shape_intersect(o, ray)

shape_normal_at(shape, local_point) ==
    IF shape.kind = "plane" THEN vector(0, D, 0) ELSE sub(local_point, point(0, 0, 0))

\* intersect that falls back to the untransformed ray when there is no inverse
intersect_untransformed(shapes, o, ray) ==
    IF IsSome(inverse(shapes[o].transform))
    THEN shape_intersect(shapes[o], o, ray_transform(ray, Get(inverse(shapes[o].transform))))
    ELSE shape_intersect(shapes[o], o, ray)

\* intersect that names the object by its fields: the first shape of the list
\* with the transform and material of shape number o
intersect_by_value(shapes, o, ray) ==
    IF IsSome(inverse(shapes[o].transform))
    THEN shape_intersect(shapes[o],
                         CHOOSE k \in 1..o : shapes[k] = shapes[o] /\ \A j \in 1..(k - 1) : shapes[j] # shapes[o],
                         ray_transform(ray, Get(inverse(shapes[o].transform))))
    ELSE << >>

\* TShape::intersect of shape number o of the list
intersect(shapes, o, ray) ==
    LET Local(maybe_shape_transform) ==
            IF IsSome(maybe_shape_transform)
            THEN shape_intersect(shapes[o], o, ray_transform(ray, Get(maybe_shape_transform)))
            ELSE << >>
    IN  Local(inverse(shapes[o].transform))

\* TShape::normal_at
normal_at(shape, world_point) ==
    LET MaybeLocalNormal(inv) ==
            IF IsSome(inv) THEN Some(shape_normal_at(shape, mul_tup(Get(inv), world_point))) ELSE None
        MaybeWorldNormal(maybe_local_normal, tinv) ==
            IF IsSome(maybe_local_normal) /\ IsSome(tinv)
            THEN Some(mul_tup(Get(tinv), Get(maybe_local_normal)))
            ELSE None
        Normalised(world_normal) ==
            IF IsSome(world_normal)
            THEN Some(norm([i \in 1..4 |-> IF i = 4 THEN 0 ELSE Get(world_normal)[i]]))
            ELSE None
    IN  Normalised(MaybeWorldNormal(MaybeLocalNormal(inverse(shape.transform)),
                                    inverse(transpose(shape.transform))))

\* pattern_at_object with the pattern's inverse applied before the shape's
pattern_at_object_pattern_first(p, object, world_point) ==
    LET At(oinv, pinv) ==
            IF IsSome(oinv) /\ IsSome(pinv)
            THEN Some(pattern_at(p, mul_tup(Get(oinv), mul_tup(Get(pinv), world_point))))
            ELSE None
    IN  At(inverse(object.transform), inverse(p.transform))

\* TPattern::pattern_at_object
pattern_at_object(p, object, world_point) ==
    LET At(oinv, pinv) ==
            IF IsSome(oinv) /\ IsSome(pinv)
            THEN Some(pattern_at(p, mul_tup(Get(pinv), mul_tup(Get(oinv), world_point))))
            ELSE None
    IN  At(inverse(object.transform), inverse(p.transform))

\* lighting that keeps the ambient term of a point in shadow
lighting_ambient_in_shadow(m, illum_point, light, eye_vec, norm_vec, in_shadow, object) ==
    colour_scale(colour_mul(m.colour, light.intensity), m.ambient)

\* lighting that takes black when the pattern cannot be sampled
lighting_black_without_sample(m, illum_point, light, eye_vec, norm_vec, in_shadow, object) ==
    LET Diffuse(effective_colour, light_dot_normal) ==
            IF light_dot_normal >= 0
            THEN colour_scale(colour_scale(effective_colour, m.diffuse), light_dot_normal)
            ELSE black
        Specular(light_dot_normal, reflect_dot_eye) ==
            IF light_dot_normal >= 0 /\ reflect_dot_eye > 0
            THEN colour_scale(colour_scale(light.intensity, m.specular),
                              FPow(reflect_dot_eye, m.shininess))
            ELSE black
        Phong(effective_colour, light_dot_normal, reflect_dot_eye) ==
            colour_add(colour_add(colour_scale(effective_colour, m.ambient),
                                  Diffuse(effective_colour, light_dot_normal)),
                       Specular(light_dot_normal, reflect_dot_eye))
        Lit(colour, light_v) ==
            Phong(colour_mul(colour, light.intensity),
                  dot(light_v, norm_vec),
                  dot(reflect(neg(light_v), norm_vec), eye_vec))
        ColourOf(maybe_pattern) == IF IsSome(maybe_pattern) THEN Get(maybe_pattern) ELSE black
        MaybePattern(pattern) ==
            IF IsSome(pattern) THEN pattern_at_object(Get(pattern), object, illum_point) ELSE None
    IN  IF in_shadow
        THEN black
        ELSE Lit(ColourOf(MaybePattern(m.pattern)), norm(sub(light.position, illum_point)))

\* Material::lighting, the Phong model
lighting(m, illum_point, light, eye_vec, norm_vec, in_shadow, object) ==
    LET Diffuse(effective_colour, light_dot_normal) ==
            IF light_dot_normal >= 0
            THEN colour_scale(colour_scale(effective_colour, m.diffuse), light_dot_normal)
            ELSE black
        Specular(light_dot_normal, reflect_dot_eye) ==
            IF light_dot_normal >= 0 /\ reflect_dot_eye > 0
            THEN colour_scale(colour_scale(light.intensity, m.specular),
                              FPow(reflect_dot_eye, m.shininess))
            ELSE black
        Phong(effective_colour, light_dot_normal, reflect_dot_eye) ==
            colour_add(colour_add(colour_scale(effective_colour, m.ambient),
                                  Diffuse(effective_colour, light_dot_normal)),
                       Specular(light_dot_normal, reflect_dot_eye))
        Lit(colour, light_v) ==
            Phong(colour_mul(colour, light.intensity),
                  dot(light_v, norm_vec),
                  dot(reflect(neg(light_v), norm_vec), eye_vec))
        ColourOf(maybe_pattern) == IF IsSome(maybe_pattern) THEN Get(maybe_pattern) ELSE m.colour
        MaybePattern(pattern) ==
            IF IsSome(pattern) THEN pattern_at_object(Get(pattern), object, illum_point) ELSE None
    IN  IF in_shadow
        THEN black
        ELSE Lit(ColourOf(MaybePattern(m.pattern)), norm(sub(light.position, illum_point)))

(***************************************************************************)
(* Rays and intersections                                                  *)
(***************************************************************************)

\* The list with x put behind every element whose `at` is not larger: one step
\* of a stable sort by `at`.
RECURSIVE InsertByAt(_, _)
InsertByAt(s, x) ==
    IF s = << >> THEN << x >>
    ELSE IF x.at < s[Len(s)].at
         THEN Append(InsertByAt(SubSeq(s, 1, Len(s) - 1), x), s[Len(s)])
         ELSE Append(s, x)

\* a sort by `at` that is not stable: of two elements with equal `at` the
\* one of the later shape comes first
RECURSIVE sort_by_at_later_shape_first(_)
sort_by_at_later_shape_first(s) ==
    LET RECURSIVE Insert(_, _)
        Before(x, y) == x.at < y.at \/ (x.at = y.at /\ x.object > y.object)
        Insert(sorted, x) ==
            IF sorted = << >> THEN << x >>
            ELSE IF Before(x, sorted[Len(sorted)])
                 THEN Append(Insert(SubSeq(sorted, 1, Len(sorted) - 1), x), sorted[Len(sorted)])
                 ELSE Append(sorted, x)
    IN  IF s = << >> THEN << >>
        ELSE Insert(sort_by_at_later_shape_first(SubSeq(s, 1, Len(s) - 1)), s[Len(s)])

\* sort_by(|a, b| a.at.total_cmp(&b.at)): a stable sort
RECURSIVE sort_by_at(_)
sort_by_at(s) ==
    IF s = << >> THEN << >>
    ELSE InsertByAt(sort_by_at(SubSeq(s, 1, Len(s) - 1)), s[Len(s)])

RECURSIVE FlatMapIntersect(_, _, _)
FlatMapIntersect(shapes, n, ray) ==
    IF n = 0 THEN << >>
    ELSE FlatMapIntersect(shapes, n - 1, ray) \o intersect(shapes, n, ray)

\* intersect_objects that keeps the intersections in front of the ray only
intersect_objects_positive(ray, shapes) ==
    SelectSeq(sort_by_at(FlatMapIntersect(shapes, Len(shapes), ray)), LAMBDA i : i.at > 0)

\* Ray::intersect_objects
intersect_objects(ray, shapes) == sort_by_at(FlatMapIntersect(shapes, Len(shapes), ray))

\* hit without the filter of the intersections at > 0
hit_unfiltered(xs) == IF Len(xs) = 0 THEN None ELSE Some(sort_by_at(xs)[1])

\* hit with the filter at >= 0 in place of at > 0
hit_non_negative(xs) ==
    IF Len(SelectSeq(xs, LAMBDA i : i.at >= 0)) = 0
    THEN None
    ELSE Some(sort_by_at(SelectSeq(xs, LAMBDA i : i.at >= 0))[1])

\* impl Hit for Vec<Intersection>
hit(xs) ==
    IF Len(xs) = 0 THEN None
    ELSE LET positive_intersections == SelectSeq(xs, LAMBDA i : i.at > 0)
         IN  IF Len(positive_intersections) = 0
             THEN None
             ELSE Some(sort_by_at(positive_intersections)[1])

\* prep_comp that keeps the shape's normal when the hit is on the inside
prep_comp_keeps_normal(ray, shapes, intersection) ==
    LET object == intersection.object
        eye_v == neg(ray.direction)
        PreComp(p, norm_v, is_inside) ==
            [object |-> object,
             point |-> p,
             over_point |-> add(p, mul(norm_v, EPSILON)),
             eye_v |-> eye_v,
             norm_v |-> norm_v,
             inside |-> is_inside,
             reflect_v |-> reflect(ray.direction, neg(norm_v)),
             n1 |-> 110,
             n2 |-> 120]
        WithNormal(p, maybe_norm_v) ==
            IF IsSome(maybe_norm_v)
            THEN Some(PreComp(p, Get(maybe_norm_v), dot(Get(maybe_norm_v), eye_v) < 0))
            ELSE None
        At(p) == WithNormal(p, normal_at(shapes[object], p))
    IN  At(position(ray, intersection.at))

\* Ray::prep_comp (the list xs of the signature is not read by the body)
prep_comp(ray, shapes, intersection) ==
    LET object == intersection.object
        eye_v == neg(ray.direction)
        PreComp(p, norm_v, is_inside, norm_v_result) ==
            [object |-> object,
             point |-> p,
             over_point |-> add(p, mul(norm_v_result, EPSILON)),
             eye_v |-> eye_v,
             norm_v |-> norm_v_result,
             inside |-> is_inside,
             reflect_v |-> reflect(ray.direction, neg(norm_v)),
             n1 |-> 110,
             n2 |-> 120]
        Facing(p, norm_v, is_inside) ==
            PreComp(p, norm_v, is_inside, IF is_inside THEN neg(norm_v) ELSE norm_v)
        WithNormal(p, maybe_norm_v) ==
            IF IsSome(maybe_norm_v)
            THEN Some(Facing(p, Get(maybe_norm_v), dot(Get(maybe_norm_v), eye_v) < 0))
            ELSE None
        At(p) == WithNormal(p, normal_at(shapes[object], p))
    IN  At(position(ray, intersection.at))

\* PreComp::shade_hit
shade_hit(pc, shapes, light_source, is_shadow) ==
    lighting(shapes[pc.object].material, pc.point, light_source, pc.eye_v, pc.norm_v,
             is_shadow, shapes[pc.object])

(***************************************************************************)
(* The world                                                               *)
(***************************************************************************)

World(objects, light) == [objects |-> objects, light |-> light]

\* is_shadowed without the comparison against the distance to the light
is_shadowed_any_hit(world, pt) ==
    IsSome(hit(intersect_objects(Ray(pt, norm(sub(world.light.position, pt))), world.objects)))

\* World::is_shadowed
is_shadowed(world, pt) ==
    LET v == sub(world.light.position, pt)
        distance == length(v)
        direction == norm(v)
        ray == Ray(pt, direction)
        Nearer(maybe_hit) == IF IsSome(maybe_hit) THEN Get(maybe_hit).at < distance ELSE FALSE
    IN  Nearer(hit(intersect_objects(ray, world.objects)))

\* Option::and_then(|i| ray.prep_comps(i))
prep_comps(ray, shapes, maybe_intersection) ==
    IF IsSome(maybe_intersection)
    THEN prep_comp(ray, shapes, Get(maybe_intersection))
    ELSE None

\* World::color_at and World::reflected_colour as functions, for a budget
\* ref_lim >= 1 (with such a budget the subtraction ref_lim - 1 stays in u32).
RECURSIVE color_at(_, _, _)
reflected_colour(world, comps, ref_lim) ==
    IF ref_lim = 0 THEN black
    ELSE IF IsSome(comps)
         THEN IF world.objects[Get(comps).object].material.reflectivity = 0
              THEN black
              ELSE colour_scale(color_at(world, Ray(Get(comps).over_point, Get(comps).reflect_v), ref_lim),
                                world.objects[Get(comps).object].material.reflectivity)
         ELSE black

color_at(world, ray, ref_lim) ==
    LET Shaded(maybe_precomp, shadowed) ==
            IF shadowed
            THEN black
            ELSE IF IsSome(maybe_precomp)
                 THEN colour_add(shade_hit(Get(maybe_precomp), world.objects, world.light, shadowed),
                                 reflected_colour(world, maybe_precomp, ref_lim - 1))
                 ELSE black
        Shadowed(maybe_precomp) ==
            Shaded(maybe_precomp,
                   IF IsSome(maybe_precomp)
                   THEN is_shadowed(world, Get(maybe_precomp).over_point)
                   ELSE FALSE)
    IN  Shadowed(prep_comps(ray, world.objects, hit(intersect_objects(ray, world.objects))))

(***************************************************************************)
(* Canvas and camera.  The program counts pixels from 0; pixels[y + 1][x + 1] *)
(* of the model is pixels[y][x] of the program.                            *)
(***************************************************************************)

\* Canvas::new
Canvas(width, height) ==
    [width |-> width, height |-> height,
     pixels |-> [y \in 1..height |-> [x \in 1..width |-> black]]]

\* Canvas::get_pixel
get_pixel(canvas, x, y) ==
    IF x >= canvas.width \/ y >= canvas.height THEN None ELSE Some(canvas.pixels[y + 1][x + 1])

\* set_pixel with the two bounds exchanged
set_pixel_swapped_bounds(canvas, x, y, colour) ==
    IF x >= canvas.height \/ y >= canvas.width
    THEN canvas
    ELSE [canvas EXCEPT !.pixels[y + 1][x + 1] = colour]

\* set_pixel that stores the colour in every pixel of the row y
set_pixel_whole_row(canvas, x, y, colour) ==
    IF x >= canvas.width \/ y >= canvas.height
    THEN canvas
    ELSE [canvas EXCEPT !.pixels[y + 1] = [i \in 1..canvas.width |-> colour]]

\* Canvas::set_pixel
set_pixel(canvas, x, y, colour) ==
    IF x >= canvas.width \/ y >= canvas.height
    THEN canvas
    ELSE [canvas EXCEPT !.pixels[y + 1][x + 1] = colour]

\* f64::ceil on a fixed-point number.
FCeil(a) == -FFloor(-a)

\* as_norm_colour with the product rounded down in place of ceil
as_norm_colour_floor(self) ==
    LET normalised_self == FFloor(FMul(self, 255 * D)) \div D
    IN  IF normalised_self >= 255 THEN 255
        ELSE IF normalised_self <= 0 THEN 0
        ELSE normalised_self

\* NormaliseColour::as_norm_colour; the result is a plain integer
as_norm_colour(self) ==
    LET normalised_self == FCeil(FMul(self, 255 * D)) \div D
    IN  IF normalised_self >= 255 THEN 255
        ELSE IF normalised_self <= 0 THEN 0
        ELSE normalised_self

\* A String is the sequence of its characters.
DigitChars == << "0", "1", "2", "3", "4", "5", "6", "7", "8", "9" >>

\* format!("{}", n) of an i32
RECURSIVE Digits(_)
Digits(n) ==
    IF n < 0 THEN << "-" >> \o Digits(-n)
    ELSE IF n < 10 THEN << DigitChars[n + 1] >>
    ELSE Digits(n \div 10) \o << DigitChars[(n % 10) + 1] >>

\* str::split(" "): the words between the spaces, the empty ones as well
RECURSIVE SplitFrom(_, _)
SplitFrom(s, i) ==
    LET Spaces == { k \in i..Len(s) : s[k] = " " }
        Next(k) == << SubSeq(s, i, k - 1) >> \o SplitFrom(s, k + 1)
    IN  IF Spaces = {} THEN << SubSeq(s, i, Len(s)) >>
        ELSE Next(CHOOSE k \in Spaces : \A j \in i..(k - 1) : s[j] # " ")

split(s) == SplitFrom(s, 1)

\* [String]::join(" ")
RECURSIVE JoinFrom(_, _)
JoinFrom(words, i) ==
    IF i > Len(words) THEN << >>
    ELSE IF i = Len(words) THEN words[i]
    ELSE words[i] \o << " " >> \o JoinFrom(words, i + 1)

join(words) == JoinFrom(words, 1)

\* the closure of limit_line_length with the line end in place of the word
LimitWordLosesWord(word, count) ==
    LET Hits == { k \in 1..Len(word) : (count + k) % 70 = 0 }
        First(hits) == CHOOSE k \in hits : \A j \in hits : k <= j
    IN  IF Hits # {}
        THEN [word |-> << "\n" >>, count |-> count + First(Hits)]
        ELSE IF (count + Len(word) + 1) % 70 = 0
        THEN [word |-> << "\n" >>, count |-> count + Len(word) + 1]
        ELSE [word |-> word, count |-> count + Len(word) + 1]

\* the closure of limit_line_length on one word: what it returns and the
\* count it leaves; the return from inside the loop over the characters
\* skips the rest of the word and its space
LimitWord(word, count) ==
    LET Hits == { k \in 1..Len(word) : (count + k) % 70 = 0 }
        First(hits) == CHOOSE k \in hits : \A j \in hits : k <= j
    IN  IF Hits # {}
        THEN [word |-> << "\n" >> \o word, count |-> count + First(Hits)]
        ELSE IF (count + Len(word) + 1) % 70 = 0
        THEN [word |-> << "\n" >> \o word, count |-> count + Len(word) + 1]
        ELSE [word |-> word, count |-> count + Len(word) + 1]

\* the map of limit_line_length over the words, count running through it
RECURSIVE LimitFrom(_, _, _)
LimitFrom(words, i, count) ==
    IF i > Len(words) THEN << >>
    ELSE LET Rest(done) == << done.word >> \o LimitFrom(words, i + 1, done.count)
         IN  Rest(LimitWord(words[i], count))

\* LineLengthLimited::limit_line_length
limit_line_length(self) == join(LimitFrom(split(self), 1, 0))

\* the line of one row of pixels in get_pixel_grid, before it is limited
RECURSIVE PixelLine(_, _)
PixelLine(row, i) ==
    IF i > Len(row) THEN << >>
    ELSE Digits(as_norm_colour(row[i].red)) \o << " " >>
         \o Digits(as_norm_colour(row[i].green)) \o << " " >>
         \o Digits(as_norm_colour(row[i].blue)) \o << " " >>
         \o PixelLine(row, i + 1)

\* Canvas::get_pixel_grid
RECURSIVE PixelGridFrom(_, _)
PixelGridFrom(canvas, y) ==
    IF y > canvas.height THEN << >>
    ELSE limit_line_length(PixelLine(canvas.pixels[y], 1)) \o << "\n" >>
         \o PixelGridFrom(canvas, y + 1)

get_pixel_grid(canvas) == PixelGridFrom(canvas, 1)

\* Camera::new; half_view is tan(fov / 2)
Camera(h_size, v_size, half_view) ==
    LET aspect == FDiv(h_size * D, v_size * D)
        half_width == IF aspect >= D THEN half_view ELSE FMul(half_view, aspect)
        half_height == IF aspect >= D THEN FDiv(half_view, aspect) ELSE half_view
    IN  [h_size |-> h_size, v_size |-> v_size, half_width |-> half_width,
         half_height |-> half_height, transform |-> ident,
         px_size |-> FDiv(half_width * 2, h_size * D)]

with_transform(c, transform) == [c EXCEPT !.transform = transform]

\* Camera::ray_for_pixel of the pixel in column x and row y
ray_for_pixel(camera, x, y) ==
    LET x_offset == FMul(x * D + D \div 2, camera.px_size)
        y_offset == FMul(y * D + D \div 2, camera.px_size)
        world_x == camera.half_width - x_offset
        world_y == camera.half_height - y_offset
        RayOf(px, orig) == Ray(orig, norm(sub(px, orig)))
        Through(inv) ==
            IF IsSome(inv)
            THEN Some(RayOf(mul_tup(Get(inv), point(world_x, world_y, -D)),
                            mul_tup(Get(inv), point(0, 0, 0))))
            ELSE None
    IN  Through(inverse(camera.transform))

(***************************************************************************)
(* Bounds and inputs                                                       *)
(***************************************************************************)

\* The largest depth budget a caller passes to color_at.
MaxDepth == 3

\* The number of nested color_at frames the thread's stack holds.
StackLimit == 6

Mirror == with_reflectivity(MaterialDefault, D)
HalfMirror == with_reflectivity(MaterialDefault, 50)
Striped == with_pattern(with_ambient(MaterialDefault, D), Stripe(white, black, ident))

\* Two facing mirrors with the light between them
\* (reflection_does_not_cause_stack_overflow).
WorldMirrors ==
    World(<< Plane(translation(0, -D, 0), Mirror), Plane(translation(0, D, 0), Mirror) >>,
          PointLight(point(0, 0, 0), white))

\* A mirror floor whose point under the eye lies in the shadow of a sphere,
\* below a lit ceiling.
WorldShadowedMirror ==
    World(<< Plane(ident, HalfMirror),
             Plane(translation(0, 6 * D, 0), MaterialDefault),
             Sphere(translation(2 * D, 150, 0), MaterialDefault) >>,
          PointLight(point(4 * D, 3 * D, 0), white))

\* The same floor and ceiling without the sphere: the floor is lit.
WorldLitMirror ==
    World(<< Plane(ident, HalfMirror),
             Plane(translation(0, 6 * D, 0), with_colour(MaterialDefault, Colour(80, D, 60))) >>,
          PointLight(point(4 * D, 3 * D, 0), white))

\* World::default(): two concentric spheres.
WorldDefault ==
    World(<< Sphere(ident, Material(10, 70, 20, 200, Colour(80, D, 60), None, 0)),
             Sphere(scaling(50, 50, 50), MaterialDefault) >>,
          PointLight(point(-10 * D, 10 * D, -10 * D), white))

\* A floor whose transform has no inverse, and a striped mirror sphere.
WorldSingular ==
    World(<< Plane(scaling(D, 0, D), Mirror),
             Sphere(translation(0, -3 * D, 0), with_reflectivity(Striped, 50)) >>,
          PointLight(point(4 * D, 3 * D, 0), white))

WorldEmpty == World(<< >>, PointLight(point(0, 10 * D, 0), white))

Worlds == { WorldMirrors, WorldShadowedMirror, WorldLitMirror, WorldDefault,
            WorldSingular, WorldEmpty }

Rays == { Ray(point(0, 0, 0), vector(0, D, 0)),
          Ray(point(0, 3 * D, 0), vector(0, -D, 0)),
          Ray(point(0, 3 * D, 0), vector(D, 0, 0)),
          Ray(point(0, 0, -5 * D), vector(0, 0, D)),
          Ray(point(0, 7 * D, 0), vector(0, D, 0)) }

(***************************************************************************)
(* State                                                                   *)
(***************************************************************************)

VARIABLES
    world,          \* the World the calls below run on
    stack,          \* color_at: the frames of the nested calls, the running one last
    status,         \* color_at: "running", "returned", "panicked" or "stack_overflow"
    result,         \* color_at: the colour the outermost call returned
    xs,             \* hit: the list of intersections
    hit_out,        \* hit: None before the call, Some(what hit returned) after it
    shadow_point,   \* is_shadowed: the point
    shadow_out,     \* is_shadowed: None before the call, Some(what it returned) after
    lighting_in,    \* lighting: the arguments
    lighting_out,   \* lighting: None before the call, Some(the colour) after it
    camera,         \* render: the Camera
    render_ref_lim, \* render: the budget its calls of color_at pass
    render_pc,      \* render: "start", "map", "merge" or "done"
    colours,        \* render: per pixel None while pending, Some(its Option<(x, y, c)>) after
    merging,        \* render: the flattened list of (x, y, c) still to be written
    canvas,         \* render: the Canvas
    writes,         \* render: per pixel, the number of stores set_pixel made
    args,           \* a call of a function of the kernel: its name and arguments
    ret             \* that call: None before it, Some(what it returned) after it

vars == << world, stack, status, result, xs, hit_out, shadow_point, shadow_out,
           lighting_in, lighting_out, camera, render_ref_lim, render_pc, colours,
           merging, canvas, writes, args, ret >>

color_at_vars == << stack, status, result >>
hit_vars == << xs, hit_out >>
shadow_vars == << shadow_point, shadow_out >>
lighting_vars == << lighting_in, lighting_out >>
render_vars == << camera, render_ref_lim, render_pc, colours, merging, canvas, writes >>
call_vars == << args, ret >>

\* The values of the variables of a part that a specification does not run.
ColorAtIdle == stack = << >> /\ status = "idle" /\ result = black
HitIdle == xs = << >> /\ hit_out = None
ShadowIdle == shadow_point = point(0, 0, 0) /\ shadow_out = None
LightingIdle == lighting_in = << >> /\ lighting_out = None
CallIdle == args = << >> /\ ret = None
RenderIdle ==
    /\ camera = Camera(1, 1, D)
    /\ render_ref_lim = 1
    /\ render_pc = "idle"
    /\ colours = << >>
    /\ merging = << >>
    /\ canvas = Canvas(0, 0)
    /\ writes = << >>

(***************************************************************************)
(* World::color_at as the program runs it: one frame per call.  A frame    *)
(* holds the arguments ray and ref_lim, the place pc the call has reached  *)
(* and its locals; lim is the budget it hands to reflected_colour and      *)
(* nested the colour its nested call returned.  A u32 is held as the       *)
(* two's-complement reading of its 32 bits, so 2^32 - 1 is -1 and the      *)
(* wrapping difference 0 - 1 is -1.                                        *)
(***************************************************************************)

Frame(ray, ref_lim) ==
    [ray |-> ray, ref_lim |-> ref_lim, pc |-> "intersect",
     maybe_precomp |-> None, is_shadowed |-> FALSE, shadow_tests |-> 0,
     maybe_surface |-> None, lim |-> None, reflected |-> black, nested |-> None,
     value |-> black]

\* u32 subtraction of 1 as a release build computes it
wrapping_sub_1(a) == IF a = -2147483647 - 1 THEN 2147483647 ELSE a - 1

Top == stack[Len(stack)]
SetTop(f) == [stack EXCEPT ![Len(stack)] = f]
Running == status = "running" /\ Len(stack) > 0

\* lines 23-27: intersections, hit, prep_comps
ColorAtIntersect ==
    /\ Running /\ Top.pc = "intersect"
    /\ LET maybe_intersection == hit(intersect_objects(Top.ray, world.objects))
           maybe_precomp == prep_comps(Top.ray, world.objects, maybe_intersection)
       IN  stack' = SetTop([Top EXCEPT !.maybe_precomp = maybe_precomp, !.pc = "shadow"])
    /\ UNCHANGED << world, call_vars, status, result, hit_vars, shadow_vars, lighting_vars, render_vars >>

\* lines 29-36: the shadow test of the over-point, and the early return
ColorAtShadow ==
    /\ Running /\ Top.pc = "shadow"
    /\ LET tested == IsSome(Top.maybe_precomp)
           Tested(shadowed) ==
               [Top EXCEPT !.is_shadowed = shadowed,
                           !.shadow_tests = IF tested THEN 1 ELSE 0,
                           !.value = black,
                           !.pc = IF shadowed THEN "return" ELSE "surface"]
       IN  stack' = SetTop(Tested(IF tested
                                  THEN is_shadowed(world, Get(Top.maybe_precomp).over_point)
                                  ELSE FALSE))
    /\ UNCHANGED << world, call_vars, status, result, hit_vars, shadow_vars, lighting_vars, render_vars >>

\* lines 40-42: shade_hit
ColorAtSurface ==
    /\ Running /\ Top.pc = "surface"
    /\ LET maybe_surface ==
               IF IsSome(Top.maybe_precomp)
               THEN Some(shade_hit(Get(Top.maybe_precomp), world.objects, world.light, Top.is_shadowed))
               ELSE None
       IN  stack' = SetTop([Top EXCEPT !.maybe_surface = maybe_surface, !.pc = "reflect"])
    /\ UNCHANGED << world, call_vars, status, result, hit_vars, shadow_vars, lighting_vars, render_vars >>

\* What reflected_colour(comps, ref_lim) does first: TRUE when it calls color_at.
Recurses(comps, ref_lim) ==
    /\ ref_lim # 0
    /\ IsSome(comps)
    /\ world.objects[Get(comps).object].material.reflectivity # 0

\* line 44, `ref_lim - 1`, in a build with overflow checks: the subtraction panics at 0
ColorAtSubtractPanics ==
    /\ Running /\ Top.pc = "reflect"
    /\ Top.ref_lim = 0
    /\ status' = "panicked"
    /\ UNCHANGED << world, call_vars, stack, result, hit_vars, shadow_vars, lighting_vars, render_vars >>

\* line 44 and reflected_colour, lines 66-81, up to its call of color_at; in a
\* build without overflow checks the subtraction wraps
ColorAtReflected ==
    /\ Running /\ Top.pc = "reflect"
    /\ LET lim == wrapping_sub_1(Top.ref_lim)
           comps == Top.maybe_precomp
       IN  IF Recurses(comps, lim)
           THEN /\ Len(stack) < StackLimit
                /\ stack' = Append(SetTop([Top EXCEPT !.lim = Some(lim), !.pc = "nested"]),
                                   Frame(Ray(Get(comps).over_point, Get(comps).reflect_v), lim))
           ELSE stack' = SetTop([Top EXCEPT !.lim = Some(lim), !.reflected = black, !.pc = "sum"])
    /\ UNCHANGED << world, call_vars, status, result, hit_vars, shadow_vars, lighting_vars, render_vars >>

\* the call of color_at in reflected_colour finds no room on the thread's stack
ColorAtStackOverflow ==
    /\ Running /\ Top.pc = "reflect"
    /\ Recurses(Top.maybe_precomp, wrapping_sub_1(Top.ref_lim))
    /\ Len(stack) >= StackLimit
    /\ status' = "stack_overflow"
    /\ UNCHANGED << world, call_vars, stack, result, hit_vars, shadow_vars, lighting_vars, render_vars >>

\* lines 47-49: surface + reflected, or black
ColorAtSum ==
    /\ Running /\ Top.pc = "sum"
    /\ stack' = SetTop([Top EXCEPT
            !.value = IF IsSome(Top.maybe_surface)
                      THEN colour_add(Get(Top.maybe_surface), Top.reflected)
                      ELSE black,
            !.pc = "return"])
    /\ UNCHANGED << world, call_vars, status, result, hit_vars, shadow_vars, lighting_vars, render_vars >>

\* The call returns: to reflected_colour (lines 75-76), which scales the colour by
\* the reflectivity, or to the caller of the outermost call.
ColorAtReturn ==
    /\ Running /\ Top.pc = "return"
    /\ IF Len(stack) = 1
       THEN /\ status' = "returned"
            /\ result' = Top.value
            /\ stack' = SetTop([Top EXCEPT !.pc = "done"])
       ELSE LET caller == stack[Len(stack) - 1]
                r == world.objects[Get(caller.maybe_precomp).object].material.reflectivity
            IN  /\ stack' = [SubSeq(stack, 1, Len(stack) - 1) EXCEPT ![Len(stack) - 1] =
                                [caller EXCEPT !.nested = Some(Top.value),
                                               !.reflected = colour_scale(Top.value, r),
                                               !.pc = "sum"]]
                /\ UNCHANGED << status, result >>
    /\ UNCHANGED << world, call_vars, hit_vars, shadow_vars, lighting_vars, render_vars >>

Init ==
    /\ world \in Worlds
    /\ \E ray \in Rays, ref_lim \in 0..MaxDepth : stack = << Frame(ray, ref_lim) >>
    /\ status = "running"
    /\ result = black
    /\ HitIdle /\ ShadowIdle /\ LightingIdle /\ RenderIdle /\ CallIdle

Next ==
    \/ ColorAtIntersect
    \/ ColorAtShadow
    \/ ColorAtSurface
    \/ ColorAtSubtractPanics
    \/ ColorAtReflected
    \/ ColorAtStackOverflow
    \/ ColorAtSum
    \/ ColorAtReturn

Spec == Init /\ [][Next]_vars

(***************************************************************************)
(* Properties of color_at                                                  *)
(***************************************************************************)

Frames == { stack[i] : i \in 1..Len(stack) }
Returning(f) == f.pc \in {"return", "done"}
Reflectivity(f) == world.objects[Get(f.maybe_precomp).object].material.reflectivity

\* No shape meets the ray at a t > 0.
Misses(ray) ==
    \A o \in 1..Len(world.objects) :
        \A k \in 1..Len(intersect(world.objects, o, ray)) :
            intersect(world.objects, o, ray)[k].at <= 0

\* C1: for every world, ray and finite budget color_at returns: the call never
\* ends in a panic or an exhausted stack, and the chain of nested calls is no
\* longer than the budget allows.
C1_ColorAtReturns ==
    /\ status \in {"running", "returned"}
    /\ Len(stack) <= stack[1].ref_lim + 1

\* C2: with budget 0 color_at returns normally, the surface colour with a black
\* reflected contribution (black on a miss); it makes no nested call and the
\* budget it hands on has not wrapped below 0.
C2_BudgetZeroIsNormal ==
    stack[1].ref_lim = 0 =>
        /\ status \in {"running", "returned"}
        /\ Len(stack) = 1
        /\ IsSome(stack[1].lim) => Get(stack[1].lim) >= 0
        /\ status = "returned" =>
               result = IF IsSome(stack[1].maybe_precomp)
                        THEN shade_hit(Get(stack[1].maybe_precomp), world.objects, world.light,
                                       stack[1].is_shadowed)
                        ELSE black

\* C3: a call with budget d > 0 whose hit surface has reflectivity r > 0 makes the
\* nested call color_at(ray from over_point along reflect_v, d - 1) and its
\* reflected contribution is r times the colour that call returns.
C3_ReflectedIsNestedCall ==
    /\ \A i \in 1..Len(stack) :
           stack[i].pc = "nested" =>
               /\ stack[i + 1].ref_lim = stack[i].ref_lim - 1
               /\ stack[i + 1].ray = Ray(Get(stack[i].maybe_precomp).over_point,
                                         Get(stack[i].maybe_precomp).reflect_v)
    /\ \A f \in Frames :
           ( /\ f.pc \in {"sum", "return", "done"}
             /\ ~f.is_shadowed
             /\ IsSome(f.maybe_precomp)
             /\ f.ref_lim > 0
             /\ Reflectivity(f) > 0 )
           => /\ IsSome(f.nested)
              /\ f.reflected = colour_scale(Get(f.nested), Reflectivity(f))

\* C4: for a ray with a hit, color_at returns the surface colour of lighting plus
\* the reflected contribution, whether or not the hit point is in shadow.
C4_SurfacePlusReflected ==
    \A f \in Frames :
        (Returning(f) /\ IsSome(f.maybe_precomp) /\ f.ref_lim >= 1)
        => f.value = colour_add(shade_hit(Get(f.maybe_precomp), world.objects, world.light,
                                          f.is_shadowed),
                                reflected_colour(world, f.maybe_precomp, f.ref_lim - 1))

\* The same sum holds for every hit point that is not in shadow.
C4_UnshadowedSurfacePlusReflected ==
    \A f \in Frames :
        (Returning(f) /\ IsSome(f.maybe_precomp) /\ f.ref_lim >= 1 /\ ~f.is_shadowed)
        => f.value = colour_add(shade_hit(Get(f.maybe_precomp), world.objects, world.light, FALSE),
                                reflected_colour(world, f.maybe_precomp, f.ref_lim - 1))

\* C7: a call whose ray meets no shape at t > 0, with a budget other than 0,
\* returns black, tests no point for shadow and makes no nested call.
C7_MissIsBlack ==
    \A f \in Frames :
        (f.ref_lim # 0 /\ Misses(f.ray))
        => /\ f.shadow_tests = 0
           /\ f.pc # "nested"
           /\ f.nested = None
           /\ f.maybe_precomp = None
           /\ Returning(f) => f.value = black
           /\ (f = stack[1] /\ status = "returned") => result = black

\* A call that missed has returned, from a world that holds shapes behind the ray.
C7_Witness ==
    /\ status = "returned"
    /\ stack[1].ref_lim >= 1
    /\ Len(world.objects) > 0
    /\ \E o \in 1..Len(world.objects) : intersect(world.objects, o, stack[1].ray) # << >>
    /\ Misses(stack[1].ray)

\* The outermost call agrees with the function color_at for every budget >= 1.
ColorAtAgrees ==
    (status = "returned" /\ stack[1].ref_lim >= 1)
    => result = color_at(world, stack[1].ray, stack[1].ref_lim)

(***************************************************************************)
(* hit() on a list of intersections                                        *)
(***************************************************************************)

\* The longest list of intersections handed to hit.
MaxXs == 4

HitIntersections ==
    { Intersection(-3 * D, 1), Intersection(0, 2), Intersection(2 * D, 1),
      Intersection(2 * D, 2), Intersection(5 * D, 2), Intersection(7 * D, 1) }

Hit ==
    /\ hit_out = None
    /\ hit_out' = Some(hit(xs))
    /\ UNCHANGED << world, call_vars, color_at_vars, xs, shadow_vars, lighting_vars, render_vars >>

InitHit ==
    /\ xs \in UNION { [1..n -> HitIntersections] : n \in 0..MaxXs }
    /\ hit_out = None
    /\ world = WorldEmpty
    /\ ColorAtIdle /\ ShadowIdle /\ LightingIdle /\ RenderIdle /\ CallIdle

NextHit == Hit

SpecHit == InitHit /\ [][NextHit]_vars

Positive == { k \in 1..Len(xs) : xs[k].at > 0 }

\* C5: hit returns the intersection with the smallest t among those with t > 0,
\* never one with t <= 0, and returns no hit exactly when no intersection has
\* t > 0.
C5_HitIsLowestPositive ==
    IsSome(hit_out) =>
        /\ Get(hit_out) = None <=> Positive = {}
        /\ IsSome(Get(hit_out)) =>
               /\ Get(Get(hit_out)).at > 0
               /\ \E k \in Positive : xs[k] = Get(Get(hit_out))
               /\ \A k \in Positive : Get(Get(hit_out)).at <= xs[k].at

\* hit has answered for the list with t = 5, 7, -3, 2: the hit is the one at t = 2.
C5_Witness ==
    /\ Len(xs) = 4
    /\ [k \in 1..4 |-> xs[k].at] = << 5 * D, 7 * D, -3 * D, 2 * D >>
    /\ IsSome(hit_out)
    /\ IsSome(Get(hit_out))
    /\ Get(Get(hit_out)).at = 2 * D

(***************************************************************************)
(* is_shadowed on a point                                                  *)
(***************************************************************************)

ShadowWorlds == { WorldDefault, WorldShadowedMirror, WorldMirrors }

ShadowPoints ==
    { point(x, y, z) : x \in {-20 * D, -2 * D, 0, 10 * D},
                       y \in {-10 * D, 2 * D, 10 * D, 20 * D},
                       z \in {-20 * D, -2 * D, 0, 10 * D} }

IsShadowed ==
    /\ shadow_out = None
    /\ shadow_out' = Some(is_shadowed(world, shadow_point))
    /\ UNCHANGED << world, call_vars, color_at_vars, hit_vars, shadow_point, lighting_vars, render_vars >>

InitShadow ==
    /\ world \in ShadowWorlds
    /\ shadow_point \in ShadowPoints
    /\ shadow_out = None
    /\ ColorAtIdle /\ HitIdle /\ LightingIdle /\ RenderIdle /\ CallIdle

NextShadow == IsShadowed

SpecShadow == InitShadow /\ [][NextShadow]_vars

\* The ray cast from the point toward the light, and the distance to the light.
ShadowRay == Ray(shadow_point, norm(sub(world.light.position, shadow_point)))
ShadowDistance == length(sub(world.light.position, shadow_point))

\* The shapes that meet the shadow ray between the point and the light.
Occluders ==
    { o \in 1..Len(world.objects) :
        \E k \in 1..Len(intersect(world.objects, o, ShadowRay)) :
            /\ intersect(world.objects, o, ShadowRay)[k].at > 0
            /\ intersect(world.objects, o, ShadowRay)[k].at < ShadowDistance }

\* The world without its occluders.
Unoccluded ==
    LET kept == (1..Len(world.objects)) \ Occluders
    IN  World([i \in 1..Cardinality(kept) |->
                   world.objects[CHOOSE o \in kept : Cardinality({j \in kept : j < o}) = i - 1]],
              world.light)

\* C6: is_shadowed(p) is true exactly when some shape meets the ray from p
\* toward the light at a t with 0 < t < distance(p, light), and p is not shadowed
\* in the world without the occluding shapes.
C6_ShadowedIffOccluded ==
    IsSome(shadow_out) =>
        /\ Get(shadow_out) <=> Occluders # {}
        /\ ~is_shadowed(Unoccluded, shadow_point)

\* The point behind the spheres of the default world is shadowed.
C6_Witness ==
    /\ world = WorldDefault
    /\ shadow_point = point(10 * D, -10 * D, 10 * D)
    /\ shadow_out = Some(TRUE)
    /\ Occluders # {}

\* The points of the program's tests: no shadow beside the shapes, behind the
\* light and between light and shapes; shadow behind the shapes.
ShadowTests ==
    (IsSome(shadow_out) /\ world = WorldDefault) =>
        /\ shadow_point = point(0, 10 * D, 0) => Get(shadow_out) = FALSE
        /\ shadow_point = point(10 * D, -10 * D, 10 * D) => Get(shadow_out) = TRUE
        /\ shadow_point = point(-20 * D, 20 * D, -20 * D) => Get(shadow_out) = FALSE
        /\ shadow_point = point(-2 * D, 2 * D, -2 * D) => Get(shadow_out) = FALSE

(***************************************************************************)
(* lighting on one surface point                                           *)
(***************************************************************************)

LightingMaterials ==
    { MaterialDefault, with_ambient(MaterialDefault, D), Striped, Mirror,
      with_pattern(MaterialDefault, Stripe(white, black, scaling(D, 0, D))) }

LightingInputs ==
    { [m |-> m, illum_point |-> p, light |-> PointLight(l, white), eye_vec |-> e,
       norm_vec |-> vector(0, 0, -D), in_shadow |-> sh, object |-> Sphere(ident, m)] :
      m \in LightingMaterials,
      p \in { point(0, 0, 0), point(D, 0, 0) },
      l \in { point(0, 0, -10 * D), point(0, 10 * D, -10 * D), point(0, 0, 10 * D) },
      e \in { vector(0, 0, -D), vector(0, 70, -70) },
      sh \in BOOLEAN }

Lighting ==
    /\ lighting_out = None
    /\ lighting_out' = Some(lighting(lighting_in.m, lighting_in.illum_point, lighting_in.light,
                                     lighting_in.eye_vec, lighting_in.norm_vec,
                                     lighting_in.in_shadow, lighting_in.object))
    /\ UNCHANGED << world, call_vars, color_at_vars, hit_vars, shadow_vars, lighting_in, render_vars >>

InitLighting ==
    /\ lighting_in \in LightingInputs
    /\ lighting_out = None
    /\ world = WorldEmpty
    /\ ColorAtIdle /\ HitIdle /\ ShadowIdle /\ RenderIdle /\ CallIdle

NextLighting == Lighting

SpecLighting == InitLighting /\ [][NextLighting]_vars

\* C10: lighting returns black whenever in_shadow is true, for every material,
\* point, light, eye vector and normal.
C10_ShadowIsBlack ==
    (IsSome(lighting_out) /\ lighting_in.in_shadow) => Get(lighting_out) = black

\* lighting has answered for a point in shadow on a striped, fully ambient
\* material that is not black where it is lit.
C10_Witness ==
    /\ lighting_out = Some(black)
    /\ lighting_in.in_shadow
    /\ IsSome(lighting_in.m.pattern)
    /\ lighting_in.m.ambient = D
    /\ lighting(lighting_in.m, lighting_in.illum_point, lighting_in.light, lighting_in.eye_vec,
                lighting_in.norm_vec, FALSE, lighting_in.object) # black

\* The values of the program's tests, to the model's resolution: eye between
\* light and surface 1.9, light behind the surface 0.1.
LightingTests ==
    (IsSome(lighting_out) /\ ~lighting_in.in_shadow /\ lighting_in.m = MaterialDefault
        /\ lighting_in.illum_point = point(0, 0, 0) /\ lighting_in.eye_vec = vector(0, 0, -D)) =>
        /\ lighting_in.light.position = point(0, 0, -10 * D)
               => Get(lighting_out) = Colour(190, 190, 190)
        /\ lighting_in.light.position = point(0, 0, 10 * D)
               => Get(lighting_out) = Colour(10, 10, 10)

(***************************************************************************)
(* Camera::render.  The per-pixel closures of the parallel map run in any  *)
(* order (RenderPixel); the collected list is then written to the canvas   *)
(* in order by the calling thread (RenderSetPixel).  The call of color_at  *)
(* in render names no budget; a render passes one budget >= 1 to all its   *)
(* calls.                                                                  *)
(***************************************************************************)

\* A singular floor in front of a striped, reflective sphere the camera sees.
WorldSingularInView ==
    World(<< Plane(scaling(D, 0, D), Mirror),
             Sphere(translation(0, 0, -3 * D), with_reflectivity(Striped, 50)) >>,
          PointLight(point(-4 * D, 3 * D, 0), white))

RenderWorlds == { WorldMirrors, WorldSingularInView }

Cameras ==
    { Camera(3, 2, D),
      with_transform(Camera(3, 2, D), translation(0, 0, -D)),
      with_transform(Camera(3, 2, D), scaling(D, 0, D)) }

Pixels == (0..(camera.h_size - 1)) \X (0..(camera.v_size - 1))

\* line 72: Canvas::new
RenderStart ==
    /\ render_pc = "start"
    /\ canvas' = Canvas(camera.h_size, camera.v_size)
    /\ render_pc' = "map"
    /\ UNCHANGED << world, call_vars, color_at_vars, hit_vars, shadow_vars, lighting_vars,
                    camera, render_ref_lim, colours, merging, writes >>

\* lines 79-82: the closure of one pixel, run by whichever thread takes it
RenderPixel ==
    /\ render_pc = "map"
    /\ \E p \in Pixels :
        /\ colours[p] = None
        /\ LET Coloured(ray) ==
                   IF IsSome(ray)
                   THEN Some(<< p[1], p[2], color_at(world, Get(ray), render_ref_lim) >>)
                   ELSE None
           IN  colours' = [colours EXCEPT ![p] = Some(Coloured(ray_for_pixel(camera, p[1], p[2])))]
    /\ UNCHANGED << world, call_vars, color_at_vars, hit_vars, shadow_vars, lighting_vars,
                    camera, render_ref_lim, render_pc, merging, canvas, writes >>

\* lines 74-86: collect keeps the order of the rows and columns; flatten drops the None
RenderCollect ==
    /\ render_pc = "map"
    /\ \A p \in Pixels : colours[p] # None
    /\ LET collected ==
               [i \in 1..(camera.h_size * camera.v_size) |->
                   Get(colours[<< (i - 1) % camera.h_size, (i - 1) \div camera.h_size >>])]
       IN  merging' = SelectSeq(collected, IsSome)
    /\ render_pc' = "merge"
    /\ UNCHANGED << world, call_vars, color_at_vars, hit_vars, shadow_vars, lighting_vars,
                    camera, render_ref_lim, colours, canvas, writes >>

\* lines 86-88: for_each set_pixel
RenderSetPixel ==
    /\ render_pc = "merge"
    /\ merging # << >>
    /\ LET x == Get(Head(merging))[1]
           y == Get(Head(merging))[2]
           c == Get(Head(merging))[3]
       IN  /\ canvas' = set_pixel(canvas, x, y, c)
           /\ writes' = [writes EXCEPT ![<< x, y >>] = @ + 1]
    /\ merging' = Tail(merging)
    /\ UNCHANGED << world, call_vars, color_at_vars, hit_vars, shadow_vars, lighting_vars,
                    camera, render_ref_lim, render_pc, colours >>

\* line 89: the canvas is returned
RenderReturn ==
    /\ render_pc = "merge"
    /\ merging = << >>
    /\ render_pc' = "done"
    /\ UNCHANGED << world, call_vars, color_at_vars, hit_vars, shadow_vars, lighting_vars,
                    camera, render_ref_lim, colours, merging, canvas, writes >>

InitRender ==
    /\ world \in RenderWorlds
    /\ camera \in Cameras
    /\ render_ref_lim \in 1..MaxDepth
    /\ render_pc = "start"
    /\ colours = [p \in Pixels |-> None]
    /\ merging = << >>
    /\ canvas = Canvas(0, 0)
    /\ writes = [p \in Pixels |-> 0]
    /\ ColorAtIdle /\ HitIdle /\ ShadowIdle /\ LightingIdle /\ CallIdle

NextRender ==
    \/ RenderStart
    \/ RenderPixel
    \/ RenderCollect
    \/ RenderSetPixel
    \/ RenderReturn

SpecRender == InitRender /\ [][NextRender]_vars

\* The pixels whose ray the camera can form.
HasRay(p) == IsSome(ray_for_pixel(camera, p[1], p[2]))
ColourOfPixel(p) == color_at(world, Get(ray_for_pixel(camera, p[1], p[2])), render_ref_lim)

CanvasHasCameraSize ==
    /\ canvas.width = camera.h_size
    /\ canvas.height = camera.v_size
    /\ Len(canvas.pixels) = camera.v_size
    /\ \A y \in 1..camera.v_size : Len(canvas.pixels[y]) = camera.h_size

\* C8 as stated: the rendered canvas has height rows by width columns, every
\* pixel (x, y) holds color_at of ray_for_pixel(x, y) and was written exactly
\* once, whatever the order of the per-pixel evaluations.
C8_EveryPixelWrittenOnce ==
    render_pc = "done" =>
        /\ CanvasHasCameraSize
        /\ \A p \in Pixels :
               /\ HasRay(p)
               /\ get_pixel(canvas, p[1], p[2]) = Some(ColourOfPixel(p))
               /\ writes[p] = 1

\* C8, amended: the rendered canvas has height rows by width columns; every
\* pixel whose ray the camera can form holds color_at of that ray and was
\* written exactly once; a pixel without a ray (the camera's transform has no
\* inverse) was never written and is black; whatever the order of the per-pixel
\* evaluations.
C8_PixelsWithRayWrittenOnce ==
    render_pc = "done" =>
        /\ CanvasHasCameraSize
        /\ \A p \in Pixels :
               IF HasRay(p)
               THEN /\ get_pixel(canvas, p[1], p[2]) = Some(ColourOfPixel(p))
                    /\ writes[p] = 1
               ELSE /\ get_pixel(canvas, p[1], p[2]) = Some(black)
                    /\ writes[p] = 0

\* A render has returned a canvas whose pixels are not all the same colour.
C8_Witness ==
    /\ render_pc = "done"
    /\ \A p \in Pixels : HasRay(p) /\ writes[p] = 1
    /\ \E p, q \in Pixels : get_pixel(canvas, p[1], p[2]) # get_pixel(canvas, q[1], q[2])
    /\ \E p \in Pixels : get_pixel(canvas, p[1], p[2]) # get_pixel(canvas, p[2] % 3, p[1] % 2)

Singular(transform) == inverse(transform) = None
SingularShapes == { o \in 1..Len(world.objects) : Singular(world.objects[o].transform) }

\* The world without the shapes whose transform has no inverse.
WorldOfInvertibleShapes ==
    LET kept == (1..Len(world.objects)) \ SingularShapes
    IN  World([i \in 1..Cardinality(kept) |->
                   world.objects[CHOOSE o \in kept : Cardinality({j \in kept : j < o}) = i - 1]],
              world.light)

\* C9: a transform without inverse is answered by absence.  A shape with such a
\* transform has an empty intersect and a normal_at of None, and color_at
\* returns what it returns without the shape; a camera with such a transform
\* has no ray for any pixel, and render leaves every pixel black.
C9_SingularIsAbsence ==
    /\ \A o \in SingularShapes : \A p \in Pixels :
           HasRay(p) =>
               /\ intersect(world.objects, o, Get(ray_for_pixel(camera, p[1], p[2]))) = << >>
               /\ normal_at(world.objects[o], Get(ray_for_pixel(camera, p[1], p[2])).origin) = None
    /\ Singular(camera.transform) => \A p \in Pixels : ~HasRay(p)
    /\ render_pc = "done" =>
           \A p \in Pixels :
               /\ Singular(camera.transform) =>
                      get_pixel(canvas, p[1], p[2]) = Some(black) /\ writes[p] = 0
               /\ HasRay(p) =>
                      get_pixel(canvas, p[1], p[2]) =
                          Some(color_at(WorldOfInvertibleShapes,
                                        Get(ray_for_pixel(camera, p[1], p[2])), render_ref_lim))

\* Renders have returned: one by a camera whose transform has no inverse, one
\* of a world that holds a shape whose transform has no inverse.
C9_Witness ==
    /\ render_pc = "done"
    /\ SingularShapes # {}
    /\ Singular(camera.transform)

\* A render of a world with such a shape has returned a canvas that is not black.
C9_WitnessShape ==
    /\ render_pc = "done"
    /\ SingularShapes # {}
    /\ \E p \in Pixels : HasRay(p) /\ get_pixel(canvas, p[1], p[2]) # Some(black)

(***************************************************************************)
(* The fluent transforms of Matrix.  The inputs are whole numbers and      *)
(* quarter turns, which the arithmetic of the model and of the program     *)
(* compute without rounding.                                               *)
(***************************************************************************)

TransformMatrices ==
    { ident, translation(D, 0, -2 * D), scaling(2 * D, 2 * D, 2 * D), rotation("Z", 1) }

TransformInputs ==
    { [op |-> "chain", m |-> m, around |-> a, radians |-> r, s |-> s, t |-> t, p |-> p] :
      m \in TransformMatrices,
      a \in { "X", "Y", "Z" },
      r \in 0..3,
      s \in { << 5 * D, 5 * D, 5 * D >>, << D, 2 * D, 3 * D >> },
      t \in { << 10 * D, 5 * D, 7 * D >>, << 0, 0, 0 >> },
      p \in { point(D, 0, D), point(0, D, 0), vector(D, 2 * D, 3 * D) } }

\* m.rotate(..).scale(..).translate(..)
Chain(a) ==
    translate(scale(rotate(a.m, a.around, a.radians), a.s[1], a.s[2], a.s[3]),
              a.t[1], a.t[2], a.t[3])

\* m.rotate(..).scale(..).translate(..).mul_tup(p)
Transform ==
    /\ ret = None
    /\ ret' = Some(mul_tup(Chain(args), args.p))
    /\ UNCHANGED << world, color_at_vars, hit_vars, shadow_vars, lighting_vars, render_vars, args >>

InitTransform ==
    /\ args \in TransformInputs
    /\ ret = None
    /\ world = WorldEmpty
    /\ ColorAtIdle /\ HitIdle /\ ShadowIdle /\ LightingIdle /\ RenderIdle

NextTransform == Transform

SpecTransform == InitTransform /\ [][NextTransform]_vars

\* The transforms of the chain applied to the point one after the other, in the
\* order they are written.
OneByOne(a) ==
    mul_tup(translation(a.t[1], a.t[2], a.t[3]),
            mul_tup(scaling(a.s[1], a.s[2], a.s[3]),
                    mul_tup(rotation(a.around, a.radians), mul_tup(a.m, a.p))))

\* C11: M.rotate(..).scale(..).translate(..).mul_tup(p) equals the translation
\* applied to the scaling applied to the rotation applied to M.mul_tup(p); each
\* call left-multiplies the fresh transform onto the accumulated matrix, and the
\* product is associative.
C11_FluentOrder ==
    IsSome(ret) =>
        LET T == translation(args.t[1], args.t[2], args.t[3])
            S == scaling(args.s[1], args.s[2], args.s[3])
            R == rotation(args.around, args.radians)
        IN  /\ Get(ret) = OneByOne(args)
            /\ translate(args.m, args.t[1], args.t[2], args.t[3]) = matrix_mul(T, args.m)
            /\ Chain(args) = matrix_mul(T, matrix_mul(S, matrix_mul(R, args.m)))
            /\ matrix_mul(matrix_mul(T, S), R) = matrix_mul(T, matrix_mul(S, R))

\* The chain of the program's test has moved the point (1, 0, 1) to (15, 0, 7),
\* and the product of its translation and scaling does not commute.
C11_Witness ==
    /\ args.m = ident /\ args.around = "X" /\ args.radians = 1
    /\ args.s = << 5 * D, 5 * D, 5 * D >> /\ args.t = << 10 * D, 5 * D, 7 * D >>
    /\ args.p = point(D, 0, D)
    /\ ret = Some(point(15 * D, 0, 7 * D))
    /\ matrix_mul(translation(10 * D, 5 * D, 7 * D), scaling(5 * D, 5 * D, 5 * D))
           # matrix_mul(scaling(5 * D, 5 * D, 5 * D), translation(10 * D, 5 * D, 7 * D))

(***************************************************************************)
(* Matrix::inverse, the round trip through a matrix and its inverse, and   *)
(* the identity matrix                                                     *)
(***************************************************************************)

\* The matrices of the program's tests: invertible, not invertible, and the one
\* whose inverse the test spells out (determinant 532).
MatrixInvertible ==
    << << 6 * D, 4 * D, 4 * D, 4 * D >>,
       << 5 * D, 5 * D, 7 * D, 6 * D >>,
       << 4 * D, -9 * D, 3 * D, -8 * D >>,
       << 9 * D, 1 * D, 7 * D, -6 * D >> >>

MatrixNotInvertible ==
    << << -4 * D, 2 * D, -2 * D, -3 * D >>,
       << 9 * D, 6 * D, 2 * D, 6 * D >>,
       << 0, -5 * D, 1 * D, -5 * D >>,
       << 0, 0, 0, 0 >> >>

MatrixOfInverseTest ==
    << << -5 * D, 2 * D, 6 * D, -8 * D >>,
       << 1 * D, -5 * D, 1 * D, 8 * D >>,
       << 7 * D, 7 * D, -6 * D, -7 * D >>,
       << 1 * D, -3 * D, 7 * D, 4 * D >> >>

\* 2 x 2 matrices, 3 x 3 matrices with a free first row, and 4 x 4 transforms;
\* scaling(10, 10, D) has the smallest positive determinant, 1 / D.
InverseMatrices ==
    { << << a, b >>, << c, d >> >> : a, b, c, d \in { -D, 0, 10, 2 * D } }
    \cup { << << a, b, c >>, << 0, D, 2 * D >>, << D, D, 3 * D >> >> : a, b, c \in { -D, 0, D } }
    \cup { MatrixInvertible, MatrixNotInvertible, MatrixOfInverseTest, ident,
           translation(5 * D, -3 * D, 2 * D), scaling(2 * D, 3 * D, 4 * D),
           scaling(D, 0, D), scaling(10, 10, D), rotation("X", 1) }

\* Matrices with an inverse whose entries the arithmetic holds exactly.
RoundTripMatrices ==
    { translation(5 * D, -3 * D, 2 * D), scaling(2 * D, 4 * D, 5 * D), scaling(50, 20, D),
      rotation("X", 1), rotation("Y", 3),
      translate(scale(rotate(ident, "Z", 1), 2 * D, 2 * D, 2 * D), D, 0, -D),
      scaling(10, 10, D), scaling(1, 1, D) }

RoundTripTuples ==
    { point(-3 * D, 4 * D, 5 * D), vector(-4 * D, 6 * D, 8 * D), point(0, 0, 0),
      vector(D, 0, 0), point(D, 2 * D, 3 * D) }

IdentityMatrices ==
    { MatrixInvertible, MatrixNotInvertible, MatrixOfInverseTest, ident,
      translation(5 * D, -3 * D, 2 * D), scaling(50, 20, D),
      << << 1 * D, 2 * D, 3 * D, 4 * D >>,
         << 2 * D, 4 * D, 4 * D, 2 * D >>,
         << 8 * D, 6 * D, 4 * D, 1 * D >>,
         << 0, 0, 0, 1 * D >> >> }

IdentityTuples ==
    RoundTripTuples \cup { << 1, -7, 33, D >>, << -250, 0, 999, 0 >>, << 5, 5, 5, 5 >> }

MatrixInputs ==
    { [op |-> "inverse", m |-> m] : m \in InverseMatrices }
    \cup { [op |-> "round_trip", m |-> m, t |-> t] : m \in RoundTripMatrices, t \in RoundTripTuples }
    \cup { [op |-> "identity", m |-> m, t |-> t] : m \in IdentityMatrices, t \in IdentityTuples }

\* m.inverse()
Inverse ==
    /\ ret = None
    /\ args.op = "inverse"
    /\ ret' = Some(inverse(args.m))
    /\ UNCHANGED << world, color_at_vars, hit_vars, shadow_vars, lighting_vars, render_vars, args >>

\* m.inverse().map(|i| i.mul_tup(m.mul_tup(t)))
RoundTrip ==
    /\ ret = None
    /\ args.op = "round_trip"
    /\ LET Back(maybe_inverse) ==
               IF IsSome(maybe_inverse)
               THEN Some(mul_tup(Get(maybe_inverse), mul_tup(args.m, args.t)))
               ELSE None
       IN  ret' = Some(Back(inverse(args.m)))
    /\ UNCHANGED << world, color_at_vars, hit_vars, shadow_vars, lighting_vars, render_vars, args >>

\* ident().mul_tup(t), m.mul(&ident()), ident().transpose(), ident().inverse()
Identity ==
    /\ ret = None
    /\ args.op = "identity"
    /\ ret' = Some([mul_tup |-> mul_tup(ident, args.t),
                    mul |-> matrix_mul(args.m, ident),
                    transpose |-> transpose(ident),
                    inverse |-> inverse(ident)])
    /\ UNCHANGED << world, color_at_vars, hit_vars, shadow_vars, lighting_vars, render_vars, args >>

InitMatrix ==
    /\ args \in MatrixInputs
    /\ ret = None
    /\ world = WorldEmpty
    /\ ColorAtIdle /\ HitIdle /\ ShadowIdle /\ LightingIdle /\ RenderIdle

NextMatrix ==
    \/ Inverse
    \/ RoundTrip
    \/ Identity

SpecMatrix == InitMatrix /\ [][NextMatrix]_vars

InverseTests ==
    (IsSome(ret) /\ args.op = "inverse") =>
        /\ args.m = MatrixNotInvertible => Get(ret) = None
        /\ args.m = MatrixInvertible => IsSome(Get(ret))
        /\ args.m = MatrixOfInverseTest =>
               /\ determinant(args.m) = 532 * D
               /\ Get(Get(ret))[4][3] = FDiv(-160 * D, 532 * D)
               /\ Get(Get(ret))[3][4] = FDiv(105 * D, 532 * D)

\* The inverses of the RoundTripMatrices, written out.
RoundTripInverses ==
    { translation(-5 * D, 3 * D, -2 * D), scaling(50, 25, 20), scaling(2 * D, 5 * D, D),
      rotation("X", 3), rotation("Y", 1),
      rotate(scale(translate(ident, -D, 0, D), 50, 50, 50), "Z", 3),
      scaling(10 * D, 10 * D, D), scaling(100 * D, 100 * D, D) }

\* m has an inverse: a matrix n with m x n = n x m = ident.
Invertible(m) ==
    \E n \in RoundTripInverses : matrix_mul(m, n) = ident /\ matrix_mul(n, m) = ident

\* C13: for every invertible matrix M and tuple t, M.inverse().mul_tup(M.mul_tup(t))
\* is t to within the tolerance.
C13_RoundTrip ==
    (IsSome(ret) /\ args.op = "round_trip" /\ Invertible(args.m)) =>
        /\ IsSome(Get(ret))
        /\ \A i \in 1..4 : Abs(Get(Get(ret))[i] - args.t[i]) <= EPSILON

\* Every matrix of the round trips is invertible, and the round trip returns the
\* tuple wherever inverse() finds the inverse: the translation moves the point
\* back and the scaling shrinks the vector back.
RoundTripTests ==
    (IsSome(ret) /\ args.op = "round_trip") =>
        /\ Invertible(args.m)
        /\ IsSome(Get(ret)) => Get(Get(ret)) = args.t
        /\ args.m # scaling(1, 1, D) => IsSome(Get(ret))

\* C14: ident().mul_tup(t) is t for every tuple, m.mul(&ident()) is m for every
\* 4 x 4 matrix, ident().transpose() is ident() and ident().inverse() is
\* Some(ident()).
C14_IdentityIsNeutral ==
    (IsSome(ret) /\ args.op = "identity") =>
        /\ Get(ret).mul_tup = args.t
        /\ Get(ret).mul = args.m
        /\ Get(ret).transpose = ident
        /\ Get(ret).inverse = Some(ident)

\* The matrix of the program's test has been multiplied by the identity, with a
\* tuple whose four components differ.
C14_Witness ==
    /\ args.op = "identity"
    /\ args.m[1] = << 1 * D, 2 * D, 3 * D, 4 * D >>
    /\ args.m # transpose(args.m)
    /\ args.t = << 1, -7, 33, D >>
    /\ IsSome(ret)
    /\ Get(ret).mul = args.m

(***************************************************************************)
(* intersect of a sphere and of a plane, and the object of an intersection *)
(***************************************************************************)

\* Lists of shapes; each holds two shapes with the same transform and material.
ShapeLists ==
    { << Sphere(ident, MaterialDefault), Sphere(ident, MaterialDefault) >>,
      << Sphere(scaling(2 * D, 2 * D, 2 * D), MaterialDefault), Plane(ident, MaterialDefault),
         Plane(ident, MaterialDefault) >>,
      << Plane(translation(0, -D, 0), Mirror), Sphere(translation(5 * D, 0, 0), Mirror),
         Sphere(translation(5 * D, 0, 0), Mirror) >> }

ShapeRays ==
    { Ray(point(x, y, z), d) :
        x \in { 0, 5 * D },
        y \in { 0, 60, D, 2 * D },
        z \in { -5 * D, 0, 5 * D },
        d \in { vector(0, 0, D), vector(D, 0, 0), vector(0, -D, 0) } }

\* Rays in the plane's own space; the direction's y comes as close to 0 as the
\* tolerance from both sides.
PlaneRays ==
    { Ray(point(x, y, 0), vector(0, dy, dz)) :
        x \in { 0, 10 * D },
        y \in { -D, 0, 3, D, 10 * D },
        dy \in { -D, -50, -2, -1, 0, 1, 2, 50, D },
        dz \in { 0, D } }

ShapeInputs ==
    UNION { { [op |-> "intersect", shapes |-> s, o |-> o, ray |-> r] :
                o \in 1..Len(s), r \in ShapeRays } : s \in ShapeLists }
    \cup { [op |-> "shape_intersect", shapes |-> << Plane(ident, MaterialDefault) >>, o |-> 1, ray |-> r] :
        r \in PlaneRays }

\* shape.intersect(&ray) of shape number o of the list
Intersect ==
    /\ ret = None
    /\ args.op = "intersect"
    /\ ret' = Some(intersect(args.shapes, args.o, args.ray))
    /\ UNCHANGED << world, color_at_vars, hit_vars, shadow_vars, lighting_vars, render_vars, args >>

\* plane.shape_intersect(&ray)
ShapeIntersect ==
    /\ ret = None
    /\ args.op = "shape_intersect"
    /\ ret' = Some(plane_shape_intersect(args.o, args.ray))
    /\ UNCHANGED << world, color_at_vars, hit_vars, shadow_vars, lighting_vars, render_vars, args >>

InitShape ==
    /\ args \in ShapeInputs
    /\ ret = None
    /\ world = WorldEmpty
    /\ ColorAtIdle /\ HitIdle /\ ShadowIdle /\ LightingIdle /\ RenderIdle

NextShape ==
    \/ Intersect
    \/ ShapeIntersect

SpecShape == InitShape /\ [][NextShape]_vars

\* The ray in the space of the shape, and the square of the distance from the
\* centre of the sphere to the point of a ray at t.
LocalRay == ray_transform(args.ray, Get(inverse(args.shapes[args.o].transform)))
Distance2(ray, t) ==
    dot(sub(position(ray, t), point(0, 0, 0)), sub(position(ray, t), point(0, 0, 0)))

OfSphere == args.op = "intersect" /\ IsSome(ret) /\ args.shapes[args.o].kind = "sphere"
UnitSphere == args.shapes[args.o].transform = ident
Along(origin) == args.ray = Ray(origin, vector(0, 0, D))

\* C15: a sphere's intersect yields no intersection or exactly two, in
\* non-decreasing order of t, never one; both lie on the sphere, between them the
\* ray is inside it, and a ray without intersections stays outside.  On the unit
\* sphere the ray toward +z gives 4 and 6 from (0,0,-5), 5 twice from (0,1,-5),
\* none from (0,2,-5), -1 and 1 from the centre, -6 and -4 from (0,0,5).
C15_SphereZeroOrTwo ==
    OfSphere =>
        LET OnSphere(local, found) ==
                /\ found[1].at <= found[2].at
                /\ \A k \in 1..2 : Abs(Distance2(local, found[k].at) - D) <= 2
                /\ Distance2(local, (found[1].at + found[2].at) \div 2) <= D
            Outside(local) == \A n \in -20..20 : Distance2(local, n * 50) > D
            Geometry(local, found) ==
                /\ Len(found) \in { 0, 2 }
                /\ Len(found) = 2 => OnSphere(local, found)
                /\ Len(found) = 0 => Outside(local)
            Ats(found) == [k \in 1..Len(found) |-> found[k].at]
        IN  /\ Geometry(LocalRay, Get(ret))
            /\ UnitSphere =>
                   /\ Along(point(0, 0, -5 * D)) => Ats(Get(ret)) = << 4 * D, 6 * D >>
                   /\ Along(point(0, D, -5 * D)) => Ats(Get(ret)) = << 5 * D, 5 * D >>
                   /\ Along(point(0, 2 * D, -5 * D)) => Ats(Get(ret)) = << >>
                   /\ Along(point(0, 0, 0)) => Ats(Get(ret)) = << -D, D >>
                   /\ Along(point(0, 0, 5 * D)) => Ats(Get(ret)) = << -6 * D, -4 * D >>

\* The tangent ray has met the unit sphere: the root 5 is reported twice.
C15_Witness ==
    /\ OfSphere /\ UnitSphere
    /\ Along(point(0, D, -5 * D))
    /\ Len(Get(ret)) = 2
    /\ Get(ret)[1].at = 5 * D /\ Get(ret)[2].at = 5 * D

\* C16: the plane's shape_intersect returns no intersection when |direction.y|
\* is within the tolerance, whatever the origin, and otherwise exactly one, at
\* t = -origin.y / direction.y, where the ray meets y = 0; from above and from
\* below alike.
C16_PlaneOneOrNone ==
    (args.op = "shape_intersect" /\ IsSome(ret)) =>
        IF Abs(args.ray.direction[2]) <= EPSILON
        THEN Get(ret) = << >>
        ELSE /\ Len(Get(ret)) = 1
             /\ Get(ret)[1].at = FDiv(-args.ray.origin[2], args.ray.direction[2])
             /\ Abs(position(args.ray, Get(ret)[1].at)[2]) <= EPSILON

\* The plane has answered a ray from above and a ray whose direction.y is just
\* the tolerance.
C16_Witness ==
    /\ args.op = "shape_intersect" /\ IsSome(ret)
    /\ \/ /\ args.ray = Ray(point(0, D, 0), vector(0, -D, 0))
          /\ Get(ret) = << Intersection(D, 1) >>
       \/ /\ args.ray.direction[2] = EPSILON /\ args.ray.origin[2] = D
          /\ Get(ret) = << >>

\* C17: every intersection that intersect returns for a shape refers to that
\* very shape, also when the list holds another shape with the same transform
\* and material.
C17_ObjectIsTheShape ==
    (args.op = "intersect" /\ IsSome(ret)) =>
        \A k \in 1..Len(Get(ret)) :
            /\ Get(ret)[k].object = args.o
            /\ \A other \in (1..Len(args.shapes)) \ { args.o } : Get(ret)[k].object # other

\* The second of two equal spheres has been intersected twice.
C17_Witness ==
    /\ args.op = "intersect" /\ IsSome(ret)
    /\ args.o = 2
    /\ args.shapes[1] = args.shapes[2]
    /\ Len(Get(ret)) = 2
    /\ Get(ret)[1].object = 2 /\ Get(ret)[2].object = 2


(***************************************************************************)
(* Ray::prep_comp over a sorted intersection list                          *)
(***************************************************************************)

\* the three spheres of finding_n1_and_n1_at_various_intersections; the
\* Material of material.rs has no transparency and no refractive index, so
\* the spheres carry the default material
GlassSpheres ==
    << Sphere(scaling(2 * D, 2 * D, 2 * D), MaterialDefault),
       Sphere(translation(0, 0, -25), MaterialDefault),
       Sphere(translation(0, 0, 25), MaterialDefault) >>

\* the refractive indices the test gives to the spheres A, B and C
RefractiveIndices == << 150, 200, 250 >>

\* the list of the test for a ray that starts at z = -4 - back
GlassIntersections(back) ==
    << Intersection(200 + back, 1), Intersection(275 + back, 2),
       Intersection(325 + back, 3), Intersection(475 + back, 2),
       Intersection(525 + back, 3), Intersection(600 + back, 1) >>

\* the intersections of the list with the shapes of keep only
OfShapes(found, keep) == SelectSeq(found, LAMBDA i : i.object \in keep)

PrepCompInputs ==
    UNION { UNION { { [ray |-> Ray(point(0, 0, -400 - back), vector(0, 0, D)),
                       shapes |-> GlassSpheres,
                       found |-> OfShapes(GlassIntersections(back), keep),
                       i |-> i]
                      : i \in 1..(2 * Cardinality(keep)) }
                    : keep \in (SUBSET {1, 2, 3}) \ {{}} }
            : back \in {0, D, 2 * D} }

\* ray.prep_comp(i, &i_ref) for one intersection of the list
PrepComp ==
    /\ ret = None
    /\ ret' = Some(prep_comp(args.ray, args.shapes, args.found[args.i]))
    /\ UNCHANGED << world, color_at_vars, hit_vars, shadow_vars, lighting_vars, render_vars, args >>

InitPrepComp ==
    /\ args \in PrepCompInputs
    /\ ret = None
    /\ world = WorldEmpty
    /\ ColorAtIdle /\ HitIdle /\ ShadowIdle /\ LightingIdle /\ RenderIdle

NextPrepComp == PrepComp

SpecPrepComp == InitPrepComp /\ [][NextPrepComp]_vars

\* the shapes the ray is inside of after the first k intersections of the list
RECURSIVE Containers(_, _)
Containers(found, k) ==
    IF k = 0 THEN << >>
    ELSE LET Cross(inside, o) ==
                 IF \E j \in 1..Len(inside) : inside[j] = o
                 THEN SelectSeq(inside, LAMBDA c : c # o)
                 ELSE Append(inside, o)
         IN  Cross(Containers(found, k - 1), found[k].object)

\* the refractive index of the innermost shape of the list, 1.0 outside all
IndexOf(inside) == IF Len(inside) = 0 THEN D ELSE RefractiveIndices[inside[Len(inside)]]

\* the pairs the test expects for its six intersections
ExpectedPairs ==
    << << D, 150 >>, << 150, 200 >>, << 200, 250 >>,
       << 250, 250 >>, << 250, 150 >>, << 150, D >> >>

\* the containers give the pairs of the test for the list A, B, C, B, C, A
ContainersGiveTheExpectedPairs ==
    \A i \in 1..6 :
        << IndexOf(Containers(GlassIntersections(0), i - 1)),
           IndexOf(Containers(GlassIntersections(0), i)) >> = ExpectedPairs[i]

\* C18: prep_comp over the t-sorted intersection list sets n1 to the
\* refractive index of the material the ray leaves and n2 to that of the
\* material it enters, 1.0 outside all shapes; for the glass spheres A, B, C
\* crossed in the order A, B, C, B, C, A the pairs are those of the test
C18_N1N2 ==
    (ret # None /\ "found" \in DOMAIN args) =>
        /\ IsSome(Get(ret))
        /\ Get(Get(ret)).n1 = IndexOf(Containers(args.found, args.i - 1))
        /\ Get(Get(ret)).n2 = IndexOf(Containers(args.found, args.i))

\* every call of the harness returns a PreComp with n1 = 1.1 and n2 = 1.2
PrepCompConstantIndices ==
    (ret # None /\ "found" \in DOMAIN args) =>
        /\ IsSome(Get(ret))
        /\ Get(Get(ret)).n1 = 110
        /\ Get(Get(ret)).n2 = 120


(***************************************************************************)
(* The patterns                                                            *)
(***************************************************************************)

red == Colour(D, 0, 0)

PatternColours == { << white, black >>, << black, red >> }

\* points on, just beside and between the integer boundaries, of either sign
PatternPoints ==
    { point(x, y, z) : x \in {-300, -200, -110, -100, -90, -10, 0, 90, D, 150, 2 * D, 3 * D},
                       y \in {-D, 0, 50, D},
                       z \in {-400, -2 * D, -D, -10, 0, 70, D, 4 * D} }

PatternInputs ==
    { [op |-> op, a |-> c[1], b |-> c[2], pt |-> pt]
      : op \in {"stripe", "ring", "checker"}, c \in PatternColours, pt \in PatternPoints }

StripePatternAt ==
    /\ ret = None
    /\ args.op = "stripe"
    /\ ret' = Some(pattern_at(Stripe(args.a, args.b, ident), args.pt))
    /\ UNCHANGED << world, color_at_vars, hit_vars, shadow_vars, lighting_vars, render_vars, args >>

RingPatternAt ==
    /\ ret = None
    /\ args.op = "ring"
    /\ ret' = Some(ring_pattern_at(Ring(args.a, args.b, ident), args.pt))
    /\ UNCHANGED << world, color_at_vars, hit_vars, shadow_vars, lighting_vars, render_vars, args >>

CheckerPatternAt ==
    /\ ret = None
    /\ args.op = "checker"
    /\ ret' = Some(checker_pattern_at(Checker(args.a, args.b, ident), args.pt))
    /\ UNCHANGED << world, color_at_vars, hit_vars, shadow_vars, lighting_vars, render_vars, args >>

InitPattern ==
    /\ args \in PatternInputs
    /\ ret = None
    /\ world = WorldEmpty
    /\ ColorAtIdle /\ HitIdle /\ ShadowIdle /\ LightingIdle /\ RenderIdle

NextPattern == StripePatternAt \/ RingPatternAt \/ CheckerPatternAt

SpecPattern == InitPattern /\ [][NextPattern]_vars

\* the whole number floor(x) of a fixed-point number
Whole(x) == x \div D

Even(n) == n % 2 = 0

\* floor(sqrt(x^2 + z^2)) of a point, as a whole number
RingOf(pt) == ISqrt(pt[1] * pt[1] + pt[3] * pt[3]) \div D

\* C19: Ring.pattern_at returns colour a when floor(sqrt(x^2 + z^2)) is even
\* and colour b when it is odd, for every point with x and z of any sign
\* and whatever its y
C19_RingParity ==
    (ret # None /\ args.op = "ring") =>
        Get(ret) = IF Even(RingOf(args.pt)) THEN args.a ELSE args.b

\* the ring of the code: a when floor(sqrt(x + z)) is even and x + z >= 0
RingOfTheSum ==
    (ret # None /\ args.op = "ring") =>
        Get(ret) = IF args.pt[1] + args.pt[3] >= 0
                      /\ Even(ISqrt((args.pt[1] + args.pt[3]) * D) \div D)
                   THEN args.a ELSE args.b


\* floor(x) + floor(y) + floor(z) of a point, as a whole number
CheckOf(pt) == Whole(pt[1]) + Whole(pt[2]) + Whole(pt[3])

\* C20: Stripe.pattern_at returns colour a when floor(x) is even and colour b
\* when it is odd, for negative x as well and whatever y and z are;
\* Checker.pattern_at returns a when floor(x) + floor(y) + floor(z) is even
\* and b when it is odd; so two points have different colours exactly when
\* the parities of their floors (stripe) or floored sums (checker) differ
C20_StripeAndCheckerParity ==
    ret # None =>
        /\ args.op = "stripe" =>
            /\ Get(ret) = IF Even(Whole(args.pt[1])) THEN args.a ELSE args.b
            /\ \A q \in PatternPoints :
                   (pattern_at(Stripe(args.a, args.b, ident), q) # Get(ret))
                       <=> (Even(Whole(q[1])) # Even(Whole(args.pt[1])))
        /\ args.op = "checker" =>
            /\ Get(ret) = IF Even(CheckOf(args.pt)) THEN args.a ELSE args.b
            /\ \A q \in PatternPoints :
                   (checker_pattern_at(Checker(args.a, args.b, ident), q) # Get(ret))
                       <=> (Even(CheckOf(q)) # Even(CheckOf(args.pt)))

\* the stripe of x = -0.1, away from the axes in y and z, is colour b
C20_Witness ==
    /\ ret # None
    /\ args.op = "stripe"
    /\ args.pt = point(-10, 50, 70)
    /\ Get(ret) = args.b

\* the tests of the stripe and of the checker on negative coordinates
PatternTests ==
    /\ pattern_at(Stripe(white, black, ident), point(-10, 0, 0)) = black
    /\ pattern_at(Stripe(white, black, ident), point(-90, 0, 0)) = black
    /\ pattern_at(Stripe(white, black, ident), point(-110, 0, 0)) = white
    /\ checker_pattern_at(Checker(white, black, ident), point(99, 0, 0)) = white
    /\ checker_pattern_at(Checker(white, black, ident), point(101, 0, 0)) = black
    /\ checker_pattern_at(Checker(white, black, ident), point(0, 0, 101)) = black
    /\ checker_pattern_at(Checker(white, black, ident), point(-10, -10, 0)) = white


(***************************************************************************)
(* TPattern::pattern_at_object                                             *)
(***************************************************************************)

\* a transform of the tests: a uniform scaling or a translation along x
TransformOf(tr) ==
    IF tr.kind = "scaling" THEN scaling(tr.by, tr.by, tr.by) ELSE translation(tr.by, 0, 0)

PatternTransforms ==
    { [kind |-> "scaling", by |-> D], [kind |-> "scaling", by |-> 2 * D],
      [kind |-> "translation", by |-> 50], [kind |-> "translation", by |-> -D] }

\* world points along x: every fifth of a unit from -3 to 3, and 1.5 and 2.5
PatternObjectPoints == { 20 * k : k \in -15..15 } \cup { 150, 250 }

PatternObjectInputs ==
    { [object |-> o, pattern |-> p, x |-> x]
      : o \in PatternTransforms, p \in PatternTransforms, x \in PatternObjectPoints }

PatternAtObject ==
    /\ ret = None
    /\ ret' = Some(pattern_at_object(Stripe(white, black, TransformOf(args.pattern)),
                                     Sphere(TransformOf(args.object), MaterialDefault),
                                     point(args.x, 0, 0)))
    /\ UNCHANGED << world, color_at_vars, hit_vars, shadow_vars, lighting_vars, render_vars, args >>

InitPatternObject ==
    /\ args \in PatternObjectInputs
    /\ ret = None
    /\ world = WorldEmpty
    /\ ColorAtIdle /\ HitIdle /\ ShadowIdle /\ LightingIdle /\ RenderIdle

NextPatternObject == PatternAtObject

SpecPatternObject == InitPatternObject /\ [][NextPatternObject]_vars

\* x taken back through a scaling or a translation
Undo(tr, x) == IF tr.kind = "scaling" THEN (x * D) \div tr.by ELSE x - tr.by

\* C21: pattern_at_object evaluates the pattern at the world point taken
\* through the shape's inverse transform first and the pattern's own inverse
\* second, so that a shape transform and a pattern transform compose: with
\* the shape scaled by 2 and the pattern translated by 0.5, world x = 2.5 is
\* sampled at pattern-space x = 0.75
C21_ShapeInverseThenPatternInverse ==
    (ret # None /\ "pattern" \in DOMAIN args) =>
        /\ IsSome(Get(ret))
        /\ Get(Get(ret)) = IF Even(Whole(Undo(args.pattern, Undo(args.object, args.x))))
                           THEN white ELSE black

\* stripes_with_pattern_and_object_transformation: 2.5 is sampled at 0.75
C21_Witness ==
    /\ ret # None
    /\ "pattern" \in DOMAIN args
    /\ args.object = [kind |-> "scaling", by |-> 2 * D]
    /\ args.pattern = [kind |-> "translation", by |-> 50]
    /\ args.x = 250
    /\ Undo(args.pattern, Undo(args.object, args.x)) = 75
    /\ Get(ret) = Some(white)


(***************************************************************************)
(* The canvas                                                              *)
(***************************************************************************)

\* (width, height) of the canvases
CanvasSizes == { << 2, 2 >>, << 3, 1 >>, << 1, 2 >> }

\* coordinates inside and outside every canvas
CanvasCoords == 0..3

CanvasColours == { black, white, red }

\* Canvas::new(width, height)
CanvasNew ==
    /\ args.op = "size"
    /\ canvas' = Canvas(args.width, args.height)
    /\ args' = [op |-> "new"]
    /\ UNCHANGED << world, color_at_vars, hit_vars, shadow_vars, lighting_vars,
                    camera, render_ref_lim, render_pc, colours, merging, writes, ret >>

\* canvas.set_pixel(x, y, colour)
SetPixel ==
    /\ args.op # "size"
    /\ \E x \in CanvasCoords, y \in CanvasCoords, colour \in CanvasColours :
           /\ canvas' = set_pixel(canvas, x, y, colour)
           /\ args' = [op |-> "set_pixel", x |-> x, y |-> y, colour |-> colour]
    /\ ret' = None
    /\ UNCHANGED << world, color_at_vars, hit_vars, shadow_vars, lighting_vars,
                    camera, render_ref_lim, render_pc, colours, merging, writes >>

\* canvas.get_pixel(x, y)
GetPixel ==
    /\ args.op # "size"
    /\ \E x \in CanvasCoords, y \in CanvasCoords :
           /\ ret' = Some(get_pixel(canvas, x, y))
           /\ args' = [op |-> "get_pixel", x |-> x, y |-> y]
    /\ UNCHANGED << world, color_at_vars, hit_vars, shadow_vars, lighting_vars, render_vars >>

InitCanvas ==
    /\ args \in { [op |-> "size", width |-> s[1], height |-> s[2]] : s \in CanvasSizes }
    /\ ret = None
    /\ world = WorldEmpty
    /\ ColorAtIdle /\ HitIdle /\ ShadowIdle /\ LightingIdle /\ RenderIdle

NextCanvas == CanvasNew \/ SetPixel \/ GetPixel

SpecCanvas == InitCanvas /\ [][NextCanvas]_vars

InBounds(x, y) == x < canvas.width /\ y < canvas.height

\* the pixels of the canvas are height rows of width colours
CanvasIsWhole ==
    /\ DOMAIN canvas.pixels = 1..canvas.height
    /\ \A y \in 1..canvas.height : DOMAIN canvas.pixels[y] = 1..canvas.width

\* what the canvas holds after a call, and what get_pixel returned
CanvasAfterCall ==
    /\ CanvasIsWhole
    /\ args.op = "new" =>
           \A x \in CanvasCoords, y \in CanvasCoords :
               InBounds(x, y) => get_pixel(canvas, x, y) = Some(black)
    /\ args.op = "get_pixel" =>
           /\ (Get(ret) = None) <=> (args.x >= canvas.width \/ args.y >= canvas.height)
           /\ InBounds(args.x, args.y) => Get(ret) = Some(canvas.pixels[args.y + 1][args.x + 1])
    /\ (args.op = "set_pixel" /\ InBounds(args.x, args.y)) =>
           get_pixel(canvas, args.x, args.y) = Some(args.colour)

\* what a call of set_pixel leaves alone
SetPixelFrame ==
    (args' # args \/ canvas' # canvas) /\ args'.op = "set_pixel" =>
        /\ canvas'.width = canvas.width /\ canvas'.height = canvas.height
        /\ \A x \in CanvasCoords, y \in CanvasCoords :
               (x # args'.x \/ y # args'.y) => get_pixel(canvas', x, y) = get_pixel(canvas, x, y)
        /\ (args'.x >= canvas.width \/ args'.y >= canvas.height) => canvas' = canvas

\* C22: after any sequence of set_pixel calls get_pixel(x, y) returns None
\* exactly when x >= width or y >= height; an in-bounds set_pixel(x, y, c)
\* changes only the pixel (x, y), which get_pixel then returns as c; an
\* out-of-bounds set_pixel changes no pixel and the canvas stays whole (no
\* index leaves the buffer); a new canvas holds black at every pixel
C22_CanvasPixels == [](args.op # "size" => CanvasAfterCall) /\ [][SetPixelFrame]_vars

\* a pixel other than the first was set on a canvas that already held colours
C22_Witness ==
    /\ args.op = "set_pixel"
    /\ args.x = 2 /\ args.y = 0 /\ canvas.width = 3
    /\ args.colour = red
    /\ get_pixel(canvas, 0, 0) = Some(white)
    /\ get_pixel(canvas, 2, 0) = Some(red)

\* an out-of-bounds set_pixel on a canvas that holds colours
CanvasOutOfBounds ==
    /\ args.op = "set_pixel"
    /\ args.x = 1 /\ args.y = 2 /\ canvas.width = 2 /\ canvas.height = 2
    /\ get_pixel(canvas, 1, 1) = Some(white)


(***************************************************************************)
(* The pixel grid of the PPM file                                          *)
(***************************************************************************)

\* channel values below, inside and above the range 0..1
ChannelValues == { -150, -50, -1, 0, 1, 39, 40, 50, 60, 80, 99, D, 101, 150 }

\* the canvas of returns_correct_pixel_grid
CanvasOfGridTest ==
    set_pixel(set_pixel(set_pixel(Canvas(5, 3), 0, 0, Colour(150, 0, 0)),
                        2, 1, Colour(0, 50, 0)),
              4, 2, Colour(-50, 0, D))

GridCanvases ==
    { set_pixel(Canvas(1, 1), 0, 0, Colour(r, g, b))
      : r \in ChannelValues, g \in ChannelValues, b \in ChannelValues }
    \cup { CanvasOfGridTest }

\* the word of length len that stands at place j of a line
WordOf(j, len) == SubSeq(Digits(10000 + 7 * j), 6 - len, 5)

\* a line of n words, the first k of length a and the others of length b,
\* each followed by a space as get_pixel_grid writes them, or joined by spaces
RECURSIVE LineOf(_, _, _, _, _, _)
LineOf(j, n, k, a, b, closed) ==
    IF j > n THEN << >>
    ELSE WordOf(j, IF j <= k THEN a ELSE b)
         \o (IF j < n \/ closed THEN << " " >> ELSE << >>)
         \o LineOf(j + 1, n, k, a, b, closed)

\* lines of up to about two hundred characters
LineShapes ==
    { [n |-> n, k |-> k, a |-> a, b |-> b, closed |-> closed]
      : n \in {1, 17, 18, 30, 36, 39, 45}, k \in {0, 3, 17}, a \in {1, 2, 3},
        b \in {1, 2, 3, 5}, closed \in BOOLEAN }

PpmInputs ==
    { [op |-> "get_pixel_grid", canvas |-> c] : c \in GridCanvases }
    \cup { [op |-> "limit_line_length",
            self |-> LineOf(1, s.n, s.k, s.a, s.b, s.closed)] : s \in LineShapes }

GetPixelGrid ==
    /\ ret = None
    /\ args.op = "get_pixel_grid"
    /\ ret' = Some(get_pixel_grid(args.canvas))
    /\ UNCHANGED << world, color_at_vars, hit_vars, shadow_vars, lighting_vars, render_vars, args >>

LimitLineLength ==
    /\ ret = None
    /\ args.op = "limit_line_length"
    /\ ret' = Some(limit_line_length(args.self))
    /\ UNCHANGED << world, color_at_vars, hit_vars, shadow_vars, lighting_vars, render_vars, args >>

InitPpm ==
    /\ args \in PpmInputs
    /\ ret = None
    /\ world = WorldEmpty
    /\ ColorAtIdle /\ HitIdle /\ ShadowIdle /\ LightingIdle /\ RenderIdle

NextPpm == GetPixelGrid \/ LimitLineLength

SpecPpm == InitPpm /\ [][NextPpm]_vars

\* the number a word of digits stands for
RECURSIVE NumberOf(_)
NumberOf(word) ==
    IF Len(word) = 0 THEN 0
    ELSE 10 * NumberOf(SubSeq(word, 1, Len(word) - 1))
         + (CHOOSE d \in 0..9 : DigitChars[d + 1] = word[Len(word)])

\* the numbers of a text, in its order
NumbersOf(s) ==
    LET Spaced == [i \in 1..Len(s) |-> IF s[i] = "\n" THEN " " ELSE s[i]]
        Words == SelectSeq(split(Spaced), LAMBDA w : Len(w) > 0)
    IN  [i \in 1..Len(Words) |-> NumberOf(Words[i])]

\* the channels of a canvas in the order of the grid
RECURSIVE ChannelsFrom(_, _, _)
ChannelsFrom(cv, y, x) ==
    IF y > cv.height THEN << >>
    ELSE IF x > cv.width THEN ChannelsFrom(cv, y + 1, 1)
    ELSE << cv.pixels[y][x].red, cv.pixels[y][x].green, cv.pixels[y][x].blue >>
         \o ChannelsFrom(cv, y, x + 1)

\* ceil(v * 255) clamped to 0..255, by its definition
Clamped(v) ==
    IF v * 255 >= 255 * D THEN 255
    ELSE IF v <= 0 THEN 0
    ELSE CHOOSE n \in 1..255 : n * D >= v * 255 /\ (n - 1) * D < v * 255

\* C23: every channel value written to the pixel grid is the integer
\* ceil(v * 255) clamped to 0..255: 255 for any v >= 1, 0 for any v <= 0,
\* 128 for 0.5, and nothing outside 0..255 for any colour of the canvas
C23_ChannelsAreClamped ==
    (ret # None /\ args.op = "get_pixel_grid") =>
        LET Agree(written, channels) ==
                /\ Len(written) = Len(channels)
                /\ \A i \in 1..Len(written) :
                       /\ written[i] \in 0..255
                       /\ written[i] = Clamped(channels[i])
                       /\ channels[i] >= D => written[i] = 255
                       /\ channels[i] <= 0 => written[i] = 0
                       /\ channels[i] = 50 => written[i] = 128
        IN  Agree(NumbersOf(Get(ret)), ChannelsFrom(args.canvas, 1, 1))

\* a pixel with a channel above 1, one of 0.5 and one below 0
C23_Witness ==
    /\ ret # None
    /\ args.op = "get_pixel_grid"
    /\ args.canvas.width = 1
    /\ args.canvas.pixels[1][1] = Colour(150, 50, -50)
    /\ NumbersOf(Get(ret)) = << 255, 128, 0 >>

\* returns_correct_pixel_grid
GridTest ==
    NumbersOf(get_pixel_grid(CanvasOfGridTest))
        = << 255, 0, 0, 0, 0, 0, 0, 0, 0, 0, 0, 0, 0, 0, 0,
             0, 0, 0, 0, 0, 0, 0, 128, 0, 0, 0, 0, 0, 0, 0,
             0, 0, 0, 0, 0, 0, 0, 0, 0, 0, 0, 0, 0, 0, 255 >>


\* str::split('\n'): the lines of a text
RECURSIVE LinesFrom(_, _)
LinesFrom(s, i) ==
    LET Ends == { k \in i..Len(s) : s[k] = "\n" }
        After(k) == << SubSeq(s, i, k - 1) >> \o LinesFrom(s, k + 1)
    IN  IF Ends = {} THEN << SubSeq(s, i, Len(s)) >>
        ELSE After(CHOOSE k \in Ends : \A j \in i..(k - 1) : s[j] # "\n")

\* the text without its line ends
WithoutLineEnds(s) == SelectSeq(s, LAMBDA c : c # "\n")

\* C27: limit_line_length breaks a space-separated line so that no line of
\* the result is longer than 70 characters, for every input of words of one
\* to three digits (and of words of up to five characters), and breaks only
\* in front of a whole word, never inside one
C27_NoLineOver70 ==
    (ret # None /\ args.op = "limit_line_length") =>
        /\ \A i \in 1..Len(LinesFrom(Get(ret), 1)) : Len(LinesFrom(Get(ret), 1)[i]) <= 70
        /\ \A k \in 1..Len(Get(ret)) :
               Get(ret)[k] = "\n" => (k = 1 \/ Get(ret)[k - 1] = " ")

\* the breaks stand in front of whole words, and no line is longer than 75
LineBreaksAreBeforeWords ==
    (ret # None /\ args.op = "limit_line_length") =>
        /\ \A i \in 1..Len(LinesFrom(Get(ret), 1)) : Len(LinesFrom(Get(ret), 1)[i]) <= 75
        /\ \A k \in 1..Len(Get(ret)) :
               Get(ret)[k] = "\n" => (k = 1 \/ Get(ret)[k - 1] = " ")

\* C28: limit_line_length only inserts line ends: the result without them
\* is the input, so no pixel value is lost, doubled, split or moved
C28_OnlyLineEndsAreInserted ==
    (ret # None /\ args.op = "limit_line_length") =>
        WithoutLineEnds(Get(ret)) = args.self

\* a line of 36 words of three digits was broken twice
C28_Witness ==
    /\ ret # None
    /\ args.op = "limit_line_length"
    /\ Len(args.self) = 144
    /\ Len(Get(ret)) = 146
    /\ Len(LinesFrom(Get(ret), 1)) = 3


(***************************************************************************)
(* The budget along the chain of nested calls of color_at                  *)
(***************************************************************************)

\* a < b on u32, the values held as the two's-complement reading of the bits
LessU32(a, b) ==
    \/ a >= 0 /\ b >= 0 /\ a < b
    \/ a >= 0 /\ b < 0
    \/ a < 0 /\ b < 0 /\ a < b

\* the nested call i of the chain has a budget one smaller than its caller's
OneSmaller(i) ==
    /\ stack[i - 1].ref_lim # 0
    /\ stack[i].ref_lim = stack[i - 1].ref_lim - 1
    /\ LessU32(stack[i].ref_lim, stack[i - 1].ref_lim)

\* C24: every nested call of color_at made through reflected_colour has a
\* budget exactly one smaller than the budget of the call that made it,
\* after a hit or a miss alike; the budget never grows along the chain, and
\* a call with budget d >= 1 leads to at most d nested calls
C24_BudgetOneSmaller ==
    /\ \A i \in 2..Len(stack) : OneSmaller(i)
    /\ (Len(stack) > 0 /\ stack[1].ref_lim >= 1) => Len(stack) - 1 <= stack[1].ref_lim

\* the same for the chains of an outermost call with budget >= 1
BudgetOneSmallerFromOne ==
    (Len(stack) > 0 /\ stack[1].ref_lim >= 1) =>
        /\ \A i \in 2..Len(stack) : OneSmaller(i)
        /\ Len(stack) - 1 <= stack[1].ref_lim
        /\ Len(stack) <= stack[1].ref_lim


(***************************************************************************)
(* Ray::intersect_objects and the hit of its list                          *)
(***************************************************************************)

ObjectShapes ==
    { Plane(ident, MaterialDefault), Plane(translation(0, D, 0), MaterialDefault),
      Plane(scaling(D, 0, D), MaterialDefault),
      Sphere(ident, MaterialDefault), Sphere(scaling(50, 50, 50), MaterialDefault) }

\* the shape lists of a world: up to three shapes, equal ones among them
ObjectLists == UNION { [1..n -> ObjectShapes] : n \in 0..3 }

\* the ray of can_get_world_intersects, one down through every shape and one
\* that starts between the planes
ObjectRays ==
    { Ray(point(0, 0, -5 * D), vector(0, 0, D)),
      Ray(point(0, 2 * D, 0), vector(0, -D, 0)),
      Ray(point(0, 50, 0), vector(0, D, 0)) }

ObjectInputs ==
    { [op |-> op, ray |-> r, shapes |-> s]
      : op \in {"intersect_objects", "hit"}, r \in ObjectRays, s \in ObjectLists }

IntersectObjects ==
    /\ ret = None
    /\ args.op = "intersect_objects"
    /\ ret' = Some(intersect_objects(args.ray, args.shapes))
    /\ UNCHANGED << world, color_at_vars, hit_vars, shadow_vars, lighting_vars, render_vars, args >>

\* ray.intersect_objects(&shapes).hit()
HitOfObjects ==
    /\ ret = None
    /\ args.op = "hit"
    /\ ret' = Some(hit(intersect_objects(args.ray, args.shapes)))
    /\ UNCHANGED << world, color_at_vars, hit_vars, shadow_vars, lighting_vars, render_vars, args >>

InitObjects ==
    /\ args \in ObjectInputs
    /\ ret = None
    /\ world = WorldEmpty
    /\ ColorAtIdle /\ HitIdle /\ ShadowIdle /\ LightingIdle /\ RenderIdle

NextObjects == IntersectObjects \/ HitOfObjects

SpecObjects == InitObjects /\ [][NextObjects]_vars

\* the intersections of the shape o of the list alone
Alone(o) == intersect(args.shapes, o, args.ray)

\* the number of places of a list that hold e
Times(found, e) == Cardinality({ i \in 1..Len(found) : found[i] = e })

RECURSIVE SumOfCounts(_)
SumOfCounts(o) == IF o = 0 THEN 0 ELSE SumOfCounts(o - 1) + Len(Alone(o))

\* C25: intersect_objects returns the intersections of every shape of the
\* list: its length is the sum of the per-shape counts, none is dropped
\* (those with negative t neither), and the list is sorted by
\* non-decreasing t
C25_AllIntersectionsSorted ==
    (ret # None /\ args.op = "intersect_objects") =>
        LET All(found) ==
                /\ Len(found) = SumOfCounts(Len(args.shapes))
                /\ \A o \in 1..Len(args.shapes) :
                       \A k \in 1..Len(Alone(o)) :
                           Times(found, Alone(o)[k]) = Times(Alone(o), Alone(o)[k])
                /\ \A i \in 1..Len(found) : found[i].object \in 1..Len(args.shapes)
                /\ \A i \in 1..(Len(found) - 1) : found[i].at <= found[i + 1].at
        IN  All(Get(ret))

\* three shapes met out of list order, one of them behind the ray
C25_Witness ==
    /\ ret # None
    /\ args.op = "intersect_objects"
    /\ Len(args.shapes) = 3
    /\ Len(Get(ret)) = 4
    /\ Get(ret)[1].at < 0
    /\ Get(ret)[1].object = 3
    /\ Get(ret)[2].object = 2
    /\ Get(ret)[4].object = 1

\* the shapes that the ray meets at the smallest positive t
Nearest ==
    LET InFront(found) == { found[k].at : k \in { n \in 1..Len(found) : found[n].at > 0 } }
        PerShape == [o \in 1..Len(args.shapes) |-> InFront(Alone(o))]
        Least(ats) == CHOOSE t \in ats : \A u \in ats : t <= u
        Of(per) ==
            LET ats == UNION { per[o] : o \in DOMAIN per }
            IN  IF ats = {} THEN {} ELSE { o \in DOMAIN per : Least(ats) \in per[o] }
    IN  Of(PerShape)

\* C29: when two shapes of the list meet the ray at the same smallest
\* positive t, the hit of intersect_objects followed by hit belongs to the
\* shape that stands earlier in the list, the same on every evaluation
C29_EarlierShapeWinsTies ==
    (ret # None /\ args.op = "hit") =>
        LET Wins(nearest) ==
                /\ (Get(ret) = None) <=> (nearest = {})
                /\ nearest # {} =>
                       /\ Get(Get(ret)).object \in nearest
                       /\ \A o \in nearest : Get(Get(ret)).object <= o
        IN  Wins(Nearest)

\* a sphere and a plane behind it in the list are met at the same t
C29_Witness ==
    /\ ret # None
    /\ args.op = "hit"
    /\ Nearest = {2, 3}
    /\ args.shapes[2].kind = "sphere"
    /\ args.shapes[3].kind = "plane"
    /\ Get(Get(ret)).object = 2


(***************************************************************************)
(* The sides of a surface in Ray::prep_comp                                *)
(***************************************************************************)

\* the intersection handed to prep_comp, and whether the ray leaves its
\* shape there: it is the later of the two the list holds of that shape
Handed == args.found[args.i]

Leaves == \E j \in 1..(args.i - 1) : args.found[j].object = Handed.object

\* C26: prep_comp sets point = ray.position(t) and eye_v = -direction;
\* inside is true exactly when the shape's normal at the point has a
\* negative dot product with eye_v, and the stored normal is then the
\* negated shape normal; so norm_v . eye_v >= 0 always, and over_point =
\* point + norm_v * 1e-5 lies off the point on the eye's side of the surface
C26_NormalFacesTheEye ==
    (ret # None /\ "found" \in DOMAIN args) =>
        LET Sides(pc, normal) ==
                /\ pc.point = position(args.ray, Handed.at)
                /\ pc.point = << 0, 0, args.ray.origin[3] + Handed.at, D >>
                /\ pc.eye_v = << 0, 0, -D, 0 >>
                /\ pc.inside <=> (dot(normal, pc.eye_v) < 0)
                /\ pc.inside <=> Leaves
                /\ pc.norm_v = IF pc.inside THEN neg(normal) ELSE normal
                /\ dot(pc.norm_v, pc.eye_v) >= 0
                /\ pc.over_point = add(pc.point, mul(pc.norm_v, EPSILON))
                /\ pc.over_point # pc.point
                /\ dot(sub(pc.over_point, pc.point), pc.eye_v) > 0
        IN  /\ IsSome(Get(ret))
            /\ Sides(Get(Get(ret)), Get(normal_at(args.shapes[Handed.object], position(args.ray, Handed.at))))

\* the ray leaves the translated sphere B: the hit is on the inside and the
\* stored normal is turned toward the eye
C26_Witness ==
    /\ ret # None
    /\ "found" \in DOMAIN args
    /\ Len(args.found) = 6
    /\ args.i = 4
    /\ Get(Get(ret)).inside
    /\ Get(Get(ret)).norm_v = << 0, 0, -D, 0 >>
    /\ Get(Get(ret)).point = << 0, 0, 75, D >>


(***************************************************************************)
(* The base colour of lighting under a pattern                             *)
(***************************************************************************)

\* transforms with and without an inverse
SampleTransforms ==
    { ident, scaling(2 * D, 2 * D, 2 * D), translation(D, 0, 0), scaling(D, 0, D) }

\* the material of lighting_with_pattern_applied (ambient 1, diffuse and
\* specular 0) with a colour of its own that is no colour of the pattern
SampleMaterials ==
    { Material(D, 0, 0, 200, c, Some(Stripe(white, black, t)), 0)
      : c \in { red, Colour(20, 40, 60) }, t \in SampleTransforms }

SampleInputs ==
    { [m |-> m, illum_point |-> point(x, 0, 0), light |-> PointLight(l, white),
       eye_vec |-> vector(0, 0, -D), norm_vec |-> vector(0, 0, -D),
       in_shadow |-> sh, object |-> Sphere(o, m)] :
      m \in SampleMaterials, o \in SampleTransforms,
      x \in { -10, 0, 90, 110, 150, 250 },
      l \in { point(0, 0, -10 * D), point(0, 10 * D, -10 * D) },
      sh \in BOOLEAN }

InitSample ==
    /\ lighting_in \in SampleInputs
    /\ lighting_out = None
    /\ world = WorldEmpty
    /\ ColorAtIdle /\ HitIdle /\ ShadowIdle /\ RenderIdle /\ CallIdle

NextSample == Lighting

SpecSample == InitSample /\ [][NextSample]_vars

HasInverse(m) == determinant(m) # 0

\* C30: when the material has a pattern and the shape's transform or the
\* pattern's transform is singular, pattern_at_object returns None and
\* lighting takes material.colour as the base colour (it does not fail and
\* is not black for that reason); when both transforms are invertible the
\* colour of the pattern is the base colour and material.colour is ignored
C30_BaseColourUnderPattern ==
    (lighting_out # None /\ ~lighting_in.in_shadow) =>
        LET Base(pattern, sampled) ==
                IF HasInverse(lighting_in.object.transform) /\ HasInverse(pattern.transform)
                THEN /\ IsSome(sampled)
                     /\ Get(sampled) \in { pattern.a, pattern.b }
                     /\ Get(lighting_out) = Get(sampled)
                     /\ Get(lighting_out) # lighting_in.m.colour
                ELSE /\ sampled = None
                     /\ Get(lighting_out) = lighting_in.m.colour
                     /\ Get(lighting_out) # black
        IN  Base(Get(lighting_in.m.pattern),
                 pattern_at_object(Get(lighting_in.m.pattern), lighting_in.object,
                                   lighting_in.illum_point))

\* a shape with a singular transform under an invertible pattern
C30_Witness ==
    /\ lighting_out # None
    /\ ~lighting_in.in_shadow
    /\ ~HasInverse(lighting_in.object.transform)
    /\ HasInverse(Get(lighting_in.m.pattern).transform)
    /\ lighting_in.m.colour = red
    /\ Get(lighting_out) = red

\* a singular pattern on an invertible shape, and both invertible
SampleCases ==
    (lighting_out # None /\ ~lighting_in.in_shadow
       /\ lighting_in.object.transform = ident /\ lighting_in.illum_point = point(110, 0, 0)) =>
        /\ Get(lighting_in.m.pattern).transform = scaling(D, 0, D)
               => Get(lighting_out) = lighting_in.m.colour
        /\ Get(lighting_in.m.pattern).transform = ident => Get(lighting_out) = black
        /\ Get(lighting_in.m.pattern).transform = translation(D, 0, 0) => Get(lighting_out) = white

=============================================================================
